---- MODULE Spec2Model ----
(***************************************************************************)
(* A model of the agent loop of orhanai/agents: the response parser        *)
(* (parser.py) and the plan / think / act orchestrator (agent.py).         *)
(*                                                                         *)
(* A Python str is modelled as a sequence of characters, each character a  *)
(* one-character string; None is modelled as the empty set and a present   *)
(* optional value x as {x}.                                                *)
(***************************************************************************)
EXTENDS Integers, Sequences, FiniteSets, TLC

VARIABLES
    \* ---- run_agent (agent.py) ----
    pc,             \* position in run_agent
    plan_items,     \* plan_items (agent.py:72)
    log,            \* log (agent.py:76)
    i,              \* loop index of `for i, item in enumerate(plan_items, 1)`
    messages,       \* messages, the transcript of the current subtask
    subtask_step,   \* subtask_step (agent.py:101)
    response_text,  \* response_text (agent.py:109)
    continue_text,  \* continue_text (agent.py:128)
    final_answer,   \* final_answer (agent.py:171)
    start_len,      \* history: Len(log) when the current subtask began
    plan_text,      \* plan_text (agent.py:69)
    model_calls,    \* history: calls of client.chat.completions.create made so far
    executed,       \* history: the calls of _execute_action, argument and value
    exception,      \* the exception that left run_agent, if one did
    \* ---- direct calls of the parser functions (parser.py) ----
    stage,          \* "idle", "call" (argument chosen) or "ret" (returned)
    text,           \* the argument `text`
    result,         \* the value returned
    wrapped,        \* the text handed to parse_agent_response a second time
    reparsed,       \* the value returned for it
    \* ---- direct calls of _execute_action (agent.py) ----
    arg_action,     \* the argument `action`
    ret_observation, \* the value returned
    \* ---- direct calls of DeckGenerator.generate_deck (deck_generator.py) ----
    topic,          \* the argument `topic`
    num_slides,     \* the argument `num_slides`
    slides,         \* slides of _generate_slides (deck_generator.py:180)
    slide_i,        \* i of `for i in range(1, min(num_slides, 6))`
    deck,           \* the value returned
    \* ---- direct calls of HTMLRenderer (html_renderer.py) ----
    render_call,    \* the method called: "render_deck" or "render_slide"
    render_arg,     \* the argument `deck_data` or `slide_data`
    html            \* the value returned

vars == <<pc, plan_items, log, i, messages, subtask_step, response_text,
          continue_text, final_answer, start_len, plan_text, model_calls, executed,
          exception, stage, text, result, wrapped, reparsed, arg_action,
          ret_observation, topic, num_slides, slides, slide_i, deck, render_call,
          render_arg, html>>

agent_vars == <<pc, plan_items, log, i, messages, subtask_step, response_text,
                continue_text, final_answer, start_len, plan_text, model_calls,
                executed, exception>>

exec_vars == <<arg_action, ret_observation>>

again_vars == <<wrapped, reparsed>>

deck_vars == <<topic, num_slides, slides, slide_i, deck>>

render_vars == <<render_call, render_arg, html>>

fn_vars == <<stage, text, result, again_vars, exec_vars, deck_vars, render_vars>>

\* no call of generate_deck is under way
DeckIdle ==
    /\ topic = <<>>
    /\ num_slides = 0
    /\ slides = <<>>
    /\ slide_i = 0
    /\ deck = {}

\* no call of the renderer is under way
RenderIdle ==
    /\ render_call = "none"
    /\ render_arg = {}
    /\ html = {}

-----------------------------------------------------------------------------
(* Bounds of the model.                                                    *)

\* longest free-form body after a prefix in a parser input
MaxBody == 2
\* longest argument between the parentheses of a call in a parser input
MaxArg == 3
\* most lines in a parse_plan input
MaxLines == 2
\* the subtask loop may start another iteration only while Len(log) < MaxLog
MaxLog == 5

-----------------------------------------------------------------------------
(* Characters and Python str operations.                                   *)

None == {}
Some(x) == {x}

\* str.strip() and the regex class \s (form feed and vertical tab left out)
Whitespace == {" ", "\t", "\n", "\r"}

\* the regex class \d
Digit == {"0", "1", "2", "3", "4", "5", "6", "7", "8", "9"}

UpperCase ==
    <<"A", "B", "C", "D", "E", "F", "G", "H", "I", "J", "K", "L", "M", "N", "O", "P", "Q",
      "R", "S", "T", "U", "V", "W", "X", "Y", "Z">>

LowerCase ==
    <<"a", "b", "c", "d", "e", "f", "g", "h", "i", "j", "k", "l", "m", "n", "o", "p", "q",
      "r", "s", "t", "u", "v", "w", "x", "y", "z">>

Range(f) == {f[k] : k \in DOMAIN f}

\* the regex class \w
WordChar == Range(UpperCase) \cup Range(LowerCase) \cup Digit \cup {"_"}

Min(S) == CHOOSE x \in S : \A y \in S : x <= y
Max(S) == CHOOSE x \in S : \A y \in S : x >= y

\* all sequences over A of length at most n
Strings(A, n) == UNION {[1..k -> A] : k \in 0..n}

\* mutant of lower: the text is compared as it was written
lower_keeps_case(s) == s

\* s.lower()
lower(s) ==
    [k \in 1..Len(s) |->
        IF \E u \in DOMAIN UpperCase : UpperCase[u] = s[k]
        THEN LowerCase[CHOOSE u \in DOMAIN UpperCase : UpperCase[u] = s[k]]
        ELSE s[k]]

\* mutant of startswith: the comparison ignores letter case
startswith_ignoring_case(s, p) ==
    Len(s) >= Len(p) /\ lower(SubSeq(s, 1, Len(p))) = lower(p)

\* s.startswith(p)
startswith(s, p) == Len(s) >= Len(p) /\ SubSeq(s, 1, Len(p)) = p

\* mutant of SliceFrom: the slice begins one character early
SliceFrom_one_early(s, n) == SubSeq(s, n, Len(s))

\* s[n:]
SliceFrom(s, n) == SubSeq(s, n + 1, Len(s))

\* s.strip(chars): drop every leading and every trailing character that is in chars
strip_chars(s, chars) ==
    LET keep == {k \in 1..Len(s) : s[k] \notin chars}
    IN  IF keep = {} THEN <<>> ELSE SubSeq(s, Min(keep), Max(keep))

\* mutant of strip: s.lstrip(), the trailing whitespace is kept
strip_leading_only(s) ==
    LET keep == {k \in 1..Len(s) : s[k] \notin Whitespace}
    IN  IF keep = {} THEN <<>> ELSE SubSeq(s, Min(keep), Len(s))

\* s.strip()
strip(s) == strip_chars(s, Whitespace)

\* sub in s
contains(s, sub) ==
    \E k \in 0..(Len(s) - Len(sub)) : SubSeq(s, k + 1, k + Len(sub)) = sub

\* s.split('\n')
RECURSIVE split_lines(_)
split_lines(s) ==
    LET nl == {k \in 1..Len(s) : s[k] = "\n"}
    IN  IF nl = {} THEN <<s>>
        ELSE <<SubSeq(s, 1, Min(nl) - 1)>> \o split_lines(SliceFrom(s, Min(nl)))

-----------------------------------------------------------------------------
(* String literals of parser.py.                                           *)

s_Plan == <<"P", "l", "a", "n", ":">>
s_PlanItem == <<"P", "l", "a", "n", "I", "t", "e", "m", ":">>
s_Thought == <<"T", "h", "o", "u", "g", "h", "t", ":">>
s_Action == <<"A", "c", "t", "i", "o", "n", ":">>
s_Observation == <<"O", "b", "s", "e", "r", "v", "a", "t", "i", "o", "n", ":">>
s_FinalAnswer == <<"F", "i", "n", "a", "l", " ", "A", "n", "s", "w", "e", "r", ":">>
s_Answer == <<"A", "n", "s", "w", "e", "r", ":">>

-----------------------------------------------------------------------------
(* parser.py                                                               *)

\* AgentResponse(type, content, metadata)
AgentResponse(type, content, metadata) ==
    [type |-> type, content |-> content, metadata |-> metadata]

\* mutant of plan_line_match: the pattern without its leading \s*, so that an
\* indented line does not match
plan_line_match_unindented(line) ==
    LET nondig  == {k \in 1..Len(line) : line[k] \notin Digit}
        b       == IF nondig = {} THEN Len(line) + 1 ELSE Min(nondig)
        rest    == SliceFrom(line, b)
        restnws == {k \in 1..Len(rest) : rest[k] \notin Whitespace}
    IN  IF b > 1 /\ b <= Len(line) /\ line[b] = "." /\ Len(rest) >= 1
        THEN Some(IF restnws = {} THEN SubSeq(rest, Len(rest), Len(rest))
                  ELSE SliceFrom(rest, Min(restnws) - 1))
        ELSE None

\* re.match(r'^\s*\d+\.\s*(.+)$', line) for a line without "\n" (parse_plan only
\* matches the pieces of text.split('\n')).  None, or Some(group 1).
\* \s* and \d+ are greedy and what follows each cannot start with a character of
\* its class, so they take their whole run; the second \s* gives back its last
\* character when the rest of the line is all whitespace, since (.+) needs one.
plan_line_match(line) ==
    LET nonws   == {k \in 1..Len(line) : line[k] \notin Whitespace}
        a       == IF nonws = {} THEN Len(line) + 1 ELSE Min(nonws)
        nondig  == {k \in a..Len(line) : line[k] \notin Digit}
        b       == IF nondig = {} THEN Len(line) + 1 ELSE Min(nondig)
        rest    == SliceFrom(line, b)
        restnws == {k \in 1..Len(rest) : rest[k] \notin Whitespace}
    IN  IF b > a /\ b <= Len(line) /\ line[b] = "." /\ Len(rest) >= 1
        THEN Some(IF restnws = {} THEN SubSeq(rest, Len(rest), Len(rest))
                  ELSE SliceFrom(rest, Min(restnws) - 1))
        ELSE None

\* the loop of parse_plan over the lines, plan_items built by append
RECURSIVE plan_items_of(_)
plan_items_of(lines) ==
    IF lines = <<>> THEN <<>>
    ELSE LET match == plan_line_match(Head(lines))
         IN  (IF match # None
              THEN <<strip(CHOOSE g \in match : TRUE)>>
              ELSE <<>>) \o plan_items_of(Tail(lines))

parse_plan(t) == plan_items_of(split_lines(t))

\* re.match(r'(\w+)\((.*)\)', action_content): None, or Some of groups 1 and 2.
\* \w+ takes the whole leading run of word characters and "(" must follow it;
\* (.*) does not cross a line break and is greedy, so the closing ")" is the
\* last ")" before the first line break after the "(".
action_match_of(action_content) ==
    LET nonword == {k \in 1..Len(action_content) : action_content[k] \notin WordChar}
        n       == IF nonword = {} THEN Len(action_content) + 1 ELSE Min(nonword)
        breaks  == {k \in (n + 1)..Len(action_content) : action_content[k] = "\n"}
        stop    == IF breaks = {} THEN Len(action_content) + 1 ELSE Min(breaks)
        closes  == {k \in (n + 1)..(stop - 1) : action_content[k] = ")"}
    IN  IF n > 1 /\ n <= Len(action_content) /\ action_content[n] = "(" /\ closes # {}
        THEN Some([g1 |-> SubSeq(action_content, 1, n - 1),
                   g2 |-> SubSeq(action_content, n + 1, Max(closes) - 1)])
        ELSE None

parse_agent_response(t) ==
    LET txt == strip(t) IN
    IF startswith(txt, s_Plan)
    THEN AgentResponse("Plan", strip(SliceFrom(txt, 5)), None)
    ELSE IF startswith(txt, s_PlanItem)
    THEN AgentResponse("PlanItem", strip(SliceFrom(txt, 9)), None)
    ELSE IF startswith(txt, s_Thought)
    THEN AgentResponse("Thought", strip(SliceFrom(txt, 8)), None)
    ELSE IF startswith(txt, s_Action)
    THEN LET action_content == strip(SliceFrom(txt, 7))
             action_match   == action_match_of(action_content)
         IN  IF action_match # None
             THEN LET m == CHOOSE g \in action_match : TRUE
                      action_name   == m.g1
                      action_params == strip_chars(m.g2, {"\"", "'"})
                  IN  AgentResponse("Action", action_content,
                                    Some([name |-> action_name, params |-> action_params]))
             ELSE AgentResponse("Action", action_content, None)
    ELSE IF startswith(txt, s_Observation)
    THEN AgentResponse("Observation", strip(SliceFrom(txt, 12)), None)
    ELSE IF startswith(txt, s_FinalAnswer) \/ startswith(txt, s_Answer)
    THEN LET prefix_len == IF startswith(txt, s_FinalAnswer) THEN 13 ELSE 7
         IN  AgentResponse("Answer", strip(SliceFrom(txt, prefix_len)), None)
    ELSE AgentResponse("Thought", txt, None)

-----------------------------------------------------------------------------
(* Direct calls of parse_agent_response: the argument is drawn from texts   *)
(* made of optional surrounding whitespace, a head (a recognized prefix, a *)
(* near miss of one, or nothing) and a body.                               *)

s_thought_lc == <<"t", "h", "o", "u", "g", "h", "t", ":">>
s_action_lc == <<"a", "c", "t", "i", "o", "n", ":">>
s_FinalAnswer_lc == <<"F", "i", "n", "a", "l", " ", "a", "n", "s", "w", "e", "r", ":">>
s_Answer_nocolon == <<"A", "n", "s", "w", "e", "r">>
s_Planning == <<"P", "l", "a", "n", "n", "i", "n", "g">>

Prefixes ==
    {s_Plan, s_PlanItem, s_Thought, s_Action, s_Observation, s_FinalAnswer, s_Answer}

NearMisses ==
    {s_thought_lc, s_action_lc, s_FinalAnswer_lc, s_Answer_nocolon, s_Planning, <<>>}

Leads == {<<>>, <<" ">>, <<"\n", "\t">>}

PlainBodies == Strings({"a", " ", ":"}, MaxBody)

CallNames == {<<"g", "_", "1">>, <<>>}

CallArgs == Strings({"x", "'", "\"", "(", ")", "\n"}, MaxArg)

CallTails == {<<>>, <<" ", "t">>}

CallBodies ==
    {n \o <<"(">> \o a \o <<")">> \o t : n \in CallNames, a \in CallArgs, t \in CallTails}

ResponseInputs ==
    {l \o h \o b : l \in Leads, h \in Prefixes \cup NearMisses, b \in PlainBodies}
    \cup {l \o h \o b : l \in {<<>>, <<" ">>}, h \in {s_Action, s_action_lc}, b \in CallBodies}

ResponseInit ==
    /\ stage = "call"
    /\ text \in ResponseInputs
    /\ result = None
    /\ pc = "idle"
    /\ plan_items = <<>>
    /\ log = <<>>
    /\ i = 0
    /\ messages = <<>>
    /\ subtask_step = 0
    /\ response_text = <<>>
    /\ continue_text = <<>>
    /\ final_answer = None
    /\ start_len = 0
    /\ plan_text = <<>>
    /\ model_calls = 0
    /\ executed = <<>>
    /\ exception = None
    /\ arg_action = None
    /\ ret_observation = None
    /\ wrapped = <<>>
    /\ reparsed = None
    /\ DeckIdle
    /\ RenderIdle

CallParseAgentResponse ==
    /\ stage = "call"
    /\ result' = Some(parse_agent_response(text))
    /\ stage' = "ret"
    /\ UNCHANGED <<text, again_vars, agent_vars, exec_vars, deck_vars, render_vars>>

\* the prefix that parse_agent_response recognizes at the head of the text t
\* (the empty text when it recognizes none), tested in the order of the code
prefix_of(t) ==
    LET s == strip(t) IN
    IF startswith(s, s_Plan) THEN s_Plan
    ELSE IF startswith(s, s_PlanItem) THEN s_PlanItem
    ELSE IF startswith(s, s_Thought) THEN s_Thought
    ELSE IF startswith(s, s_Action) THEN s_Action
    ELSE IF startswith(s, s_Observation) THEN s_Observation
    ELSE IF startswith(s, s_FinalAnswer) THEN s_FinalAnswer
    ELSE IF startswith(s, s_Answer) THEN s_Answer
    ELSE <<>>

\* parse_agent_response is called on the content of the event it returned,
\* put behind the prefix of the first call's text, next to it or a space apart
CallParseAgentResponseAgain(sep) ==
    /\ stage = "ret"
    /\ result # None
    /\ LET e == CHOOSE r \in result : TRUE
           again == IF prefix_of(text) = <<>> THEN e.content
                    ELSE prefix_of(text) \o sep \o e.content
       IN  /\ wrapped' = again
           /\ reparsed' = Some(parse_agent_response(again))
    /\ stage' = "again"
    /\ UNCHANGED <<text, result, agent_vars, exec_vars, deck_vars, render_vars>>

ResponseNext ==
    \/ CallParseAgentResponse
    \/ \E sep \in {<<>>, <<" ">>} : CallParseAgentResponseAgain(sep)

ResponseSpec == ResponseInit /\ [][ResponseNext]_vars

-----------------------------------------------------------------------------
(* Vocabulary of the claims about the parser, defined apart from the       *)
(* operators that model the code.                                          *)

\* s without its leading and trailing whitespace
RECURSIVE Trim(_)
Trim(s) ==
    IF s = <<>> THEN s
    ELSE IF Head(s) \in Whitespace THEN Trim(Tail(s))
    ELSE IF s[Len(s)] \in Whitespace THEN Trim(SubSeq(s, 1, Len(s) - 1))
    ELSE s

\* s begins with p
HasPrefix(s, p) == \E rest \in {SubSeq(s, Len(p) + 1, Len(s))} : s = p \o rest

\* what follows the prefix p in s
AfterPrefix(s, p) == SubSeq(s, Len(p) + 1, Len(s))

KindOfPrefix(p) ==
    CASE p = s_Plan        -> "Plan"
      [] p = s_PlanItem    -> "PlanItem"
      [] p = s_Thought     -> "Thought"
      [] p = s_Action      -> "Action"
      [] p = s_Observation -> "Observation"
      [] p = s_FinalAnswer -> "Answer"
      [] p = s_Answer      -> "Answer"

Returned == CHOOSE r \in result : TRUE

\* C1: a text that, trimmed, begins with a recognized prefix is given the kind
\* of that prefix, and its text is what follows the prefix, trimmed.
C1_PrefixGivesKind ==
    (stage = "ret" /\ pc = "idle" /\ result # None) =>
        \A p \in Prefixes :
            HasPrefix(Trim(text), p) =>
                /\ Returned.type = KindOfPrefix(p)
                /\ Returned.content = Trim(AfterPrefix(Trim(text), p))

C1_Witness ==
    /\ stage = "ret"
    /\ HasPrefix(Trim(text), s_FinalAnswer)
    /\ text # Trim(text)
    /\ AfterPrefix(Trim(text), s_FinalAnswer) # Trim(AfterPrefix(Trim(text), s_FinalAnswer))
    /\ Returned.type = "Answer"
    /\ Returned.content # <<>>

\* C2: a text that, trimmed, begins with no recognized prefix (the empty text
\* and wrong-case prefixes included) is returned as a Thought holding the whole
\* trimmed text and no metadata; the call always returns an event.
C2_DefaultsToThought ==
    (stage = "ret" /\ pc = "idle") =>
        /\ result # None
        /\ (\A p \in Prefixes : ~HasPrefix(Trim(text), p)) =>
                Returned = [type |-> "Thought", content |-> Trim(text), metadata |-> None]

C2_Witness ==
    /\ stage = "ret"
    /\ HasPrefix(Trim(text), s_action_lc)
    /\ text # Trim(text)
    /\ Len(Trim(text)) > Len(s_action_lc)
    /\ Returned = [type |-> "Thought", content |-> Trim(text), metadata |-> None]

\* the call syntax name(argument): a name of word characters, "(" right after
\* it, and a ")" somewhere after that
IsCall(rem) ==
    \E n \in 1..Len(rem), c \in 1..Len(rem) :
        /\ \A k \in 1..n : rem[k] \in WordChar
        /\ n + 1 < c
        /\ rem[n + 1] = "("
        /\ rem[c] = ")"

CallName(rem) == SubSeq(rem, 1, Min({k \in 1..Len(rem) : rem[k] = "("}) - 1)

\* everything between the first "(" and the last ")"
CallArgument(rem) ==
    SubSeq(rem, Min({k \in 1..Len(rem) : rem[k] = "("}) + 1,
                Max({k \in 1..Len(rem) : rem[k] = ")"}) - 1)

Quotes == {"'", "\""}

\* one layer of surrounding quotes removed: a matching pair around the argument
UnquotePair(a) ==
    IF Len(a) >= 2 /\ a[1] \in Quotes /\ a[Len(a)] = a[1]
    THEN SubSeq(a, 2, Len(a) - 1) ELSE a

\* one layer of surrounding quotes removed: one quote at each end, where there is one
UnquoteEnds(a) ==
    LET b == IF a # <<>> /\ a[1] \in Quotes THEN Tail(a) ELSE a
    IN  IF b # <<>> /\ b[Len(b)] \in Quotes THEN SubSeq(b, 1, Len(b) - 1) ELSE b

\* C3 (as claimed): for an "Action:" text whose remainder is a call, the metadata
\* holds the name and the argument with exactly one layer of surrounding quotes
\* removed (under either reading of "one layer"); for any other "Action:" text
\* the event has kind Action and no metadata.  Stated for one-line remainders.
C3_OneQuoteLayerRemoved ==
    (stage = "ret" /\ pc = "idle" /\ HasPrefix(Trim(text), s_Action)) =>
        LET rem == Trim(AfterPrefix(Trim(text), s_Action)) IN
        (\A k \in 1..Len(rem) : rem[k] # "\n") =>
            /\ Returned.type = "Action"
            /\ IF IsCall(rem)
               THEN \E a \in {UnquotePair(CallArgument(rem)), UnquoteEnds(CallArgument(rem))} :
                        Returned.metadata = Some([name |-> CallName(rem), params |-> a])
               ELSE Returned.metadata = None

-----------------------------------------------------------------------------
(* Direct calls of parse_plan: the argument is at most MaxLines lines, each *)
(* made of optional indentation, an optional number, an optional dot and a *)
(* payload (which may begin with whitespace).                              *)

LineIndents == {<<>>, <<" ", "\t">>}
LineNumbers == {<<>>, <<"1", "0">>}
LineDots == {<<>>, <<".">>}
LinePayloads == {<<>>, <<" ">>, <<"a", " ", "b">>, <<" ", "2", ".", "c", "\r">>}

PlanLines ==
    {ind \o num \o dot \o pay :
        ind \in LineIndents, num \in LineNumbers, dot \in LineDots, pay \in LinePayloads}

RECURSIVE JoinLines(_)
JoinLines(lines) ==
    IF Len(lines) = 0 THEN <<>>
    ELSE IF Len(lines) = 1 THEN lines[1]
    ELSE lines[1] \o <<"\n">> \o JoinLines(Tail(lines))

PlanInputs == {JoinLines(ls) : ls \in Strings(PlanLines, MaxLines)}

PlanInit ==
    /\ stage = "call"
    /\ text \in PlanInputs
    /\ result = None
    /\ pc = "idle"
    /\ plan_items = <<>>
    /\ log = <<>>
    /\ i = 0
    /\ messages = <<>>
    /\ subtask_step = 0
    /\ response_text = <<>>
    /\ continue_text = <<>>
    /\ final_answer = None
    /\ start_len = 0
    /\ plan_text = <<>>
    /\ model_calls = 0
    /\ executed = <<>>
    /\ exception = None
    /\ arg_action = None
    /\ ret_observation = None
    /\ wrapped = <<>>
    /\ reparsed = None
    /\ DeckIdle
    /\ RenderIdle

CallParsePlan ==
    /\ stage = "call"
    /\ result' = Some(parse_plan(text))
    /\ stage' = "ret"
    /\ UNCHANGED <<text, again_vars, agent_vars, exec_vars, deck_vars, render_vars>>

PlanNext == CallParsePlan

PlanSpec == PlanInit /\ [][PlanNext]_vars

\* the lines of t: the pieces between its line breaks
RECURSIVE LinesOf(_)
LinesOf(t) ==
    IF \A k \in 1..Len(t) : t[k] # "\n" THEN <<t>>
    ELSE LET k == CHOOSE j \in 1..Len(t) : t[j] = "\n" /\ \A h \in 1..(j - 1) : t[h] # "\n"
         IN  <<SubSeq(t, 1, k - 1)>> \o LinesOf(SubSeq(t, k + 1, Len(t)))

\* the payloads of a line, over every way to read the line as
\* <whitespace><digits>.<whitespace><payload> with a payload of at least one character
PayloadsOf(line) ==
    {SubSeq(line, d + w + 2, Len(line)) :
        <<d, w>> \in {<<d, w>> \in (1..Len(line)) \X (0..Len(line)) :
            /\ d + w + 2 <= Len(line)
            /\ line[d + 1] = "."
            /\ \E a \in 0..(d - 1) :
                   /\ \A k \in 1..a : line[k] \in Whitespace
                   /\ \A k \in (a + 1)..d : line[k] \in Digit
            /\ \A k \in (d + 2)..(d + w + 1) : line[k] \in Whitespace}}

IsNumbered(line) == PayloadsOf(line) # {}

RECURSIVE SelectNumbered(_)
SelectNumbered(lines) ==
    IF lines = <<>> THEN <<>>
    ELSE (IF IsNumbered(Head(lines)) THEN <<Head(lines)>> ELSE <<>>)
         \o SelectNumbered(Tail(lines))

\* C4: parse_plan returns one item for each numbered line, in line order, each
\* item being its line's payload trimmed; with no numbered line it returns the
\* empty sequence.
C4_PlanItemsAreNumberedLines ==
    (stage = "ret" /\ pc = "idle" /\ result # None) =>
        LET numbered == SelectNumbered(LinesOf(text)) IN
        /\ Len(Returned) = Len(numbered)
        /\ \A k \in 1..Len(numbered) :
               \A pay \in PayloadsOf(numbered[k]) : Returned[k] = Trim(pay)

C4_Witness ==
    /\ stage = "ret"
    /\ Len(LinesOf(text)) = 2
    /\ ~IsNumbered(LinesOf(text)[1])
    /\ LinesOf(text)[1] # <<>>
    /\ IsNumbered(LinesOf(text)[2])
    /\ Returned = << <<"a", " ", "b">> >>
    /\ LinesOf(text)[2] # Trim(LinesOf(text)[2])

-----------------------------------------------------------------------------
(* String literals of agent.py.                                            *)

s_ThoughtForced == <<"T", "h", "o", "u", "g", "h", "t", ":", " ">>
s_Subtask == <<"S", "u", "b", "t", "a", "s", "k", ":", " ">>
s_ThoughtCue == <<"\n", "T", "h", "o", "u", "g", "h", "t", ":">>
s_Continue == <<"C", "o", "n", "t", "i", "n", "u", "e", ":">>
s_ObservationCue == <<"O", "b", "s", "e", "r", "v", "a", "t", "i", "o", "n", ":", " ">>
s_ContinueCue == <<"\n", "C", "o", "n", "t", "i", "n", "u", "e", ":">>
s_Search == <<"S", "e", "a", "r", "c", "h">>
s_bitcoin_ticker == <<"b", "i", "t", "c", "o", "i", "n", " ", "t", "i", "c", "k", "e", "r">>
s_price_of_btc == <<"p", "r", "i", "c", "e", " ", "o", "f", " ", "b", "t", "c">>
s_bitcoin_price == <<"b", "i", "t", "c", "o", "i", "n", " ", "p", "r", "i", "c", "e">>
s_weather == <<"w", "e", "a", "t", "h", "e", "r">>
s_BTC == <<"B", "T", "C">>
s_54000 == <<"I", "t", "'", "s", " ", "$", "5", "4", ",", "0", "0", "0">>
s_72F ==
    <<"I", "t", "'", "s", " ", "7", "2", "deg", "F", " ", "a", "n", "d", " ", "s", "u", "n",
      "n", "y">>
s_SearchResultsFor ==
    <<"S", "e", "a", "r", "c", "h", " ", "r", "e", "s", "u", "l", "t", "s", " ", "f", "o", "r",
      " ", "'">>
s_VariousFound ==
    <<"'", ":", " ", "V", "a", "r", "i", "o", "u", "s", " ", "r", "e", "l", "e", "v", "a", "n",
      "t", " ", "i", "n", "f", "o", "r", "m", "a", "t", "i", "o", "n", " ", "f", "o", "u", "n",
      "d", ".">>
s_ActionExecuted ==
    <<"A", "c", "t", "i", "o", "n", " ", "e", "x", "e", "c", "u", "t", "e", "d", " ", "s", "u",
      "c", "c", "e", "s", "s", "f", "u", "l", "l", "y", ".">>
SystemInstruction ==
    <<"Y", "o", "u", " ", "a", "r", "e", " ", "a", "n", " ", "a", "g", "e", "n", "t", " ", "t",
      "h", "a", "t", " ", "t", "h", "i", "n", "k", "s", " ", "s", "t", "e", "p", " ", "b", "y",
      " ", "s", "t", "e", "p", ".", "\n", "W", "h", "e", "n", " ", "g", "i", "v", "e", "n",
      " ", "a", " ", "s", "u", "b", "t", "a", "s", "k", ":", "\n", "1", ".", " ", "F", "i",
      "r", "s", "t", " ", "r", "e", "s", "p", "o", "n", "d", " ", "w", "i", "t", "h", " ",
      "\"", "T", "h", "o", "u", "g", "h", "t", ":", "\"", " ", "f", "o", "l", "l", "o", "w",
      "e", "d", " ", "b", "y", " ", "y", "o", "u", "r", " ", "r", "e", "a", "s", "o", "n", "i",
      "n", "g", "\n", "2", ".", " ", "T", "h", "e", "n", " ", "e", "i", "t", "h", "e", "r",
      ":", "\n", " ", " ", " ", "-", " ", "\"", "A", "c", "t", "i", "o", "n", ":", " ", "S",
      "e", "a", "r", "c", "h", "(", "'", "q", "u", "e", "r", "y", "'", ")", "\"", " ", "t",
      "o", " ", "s", "e", "a", "r", "c", "h", " ", "f", "o", "r", " ", "i", "n", "f", "o", "r",
      "m", "a", "t", "i", "o", "n", "\n", " ", " ", " ", "-", " ", "\"", "F", "i", "n", "a",
      "l", " ", "A", "n", "s", "w", "e", "r", ":", " ", "y", "o", "u", "r", " ", "a", "n", "s",
      "w", "e", "r", "\"", " ", "w", "h", "e", "n", " ", "y", "o", "u", " ", "h", "a", "v",
      "e", " ", "e", "n", "o", "u", "g", "h", " ", "i", "n", "f", "o", "r", "m", "a", "t", "i",
      "o", "n">>

-----------------------------------------------------------------------------
(* agent.py                                                                *)

\* _execute_action(action)
_execute_action(action) ==
    LET md == CHOOSE m \in action.metadata : TRUE IN
    IF action.metadata # None /\ md.name = s_Search
    THEN LET query == md.params IN
         IF contains(lower(query), s_bitcoin_ticker) THEN s_BTC
         ELSE IF contains(lower(query), s_price_of_btc) \/ contains(lower(query), s_bitcoin_price)
         THEN s_54000
         ELSE IF contains(lower(query), s_weather) THEN s_72F
         ELSE s_SearchResultsFor \o query \o s_VariousFound
    ELSE s_ActionExecuted

Message(role, content) == [role |-> role, content |-> content]

\* mutant of final_answer_of: the scan runs forward and stops at the first Answer
final_answer_of_first(entries) ==
    LET answers == {k \in 1..Len(entries) : entries[k].type = "Answer"}
    IN  IF answers = {} THEN None ELSE Some(entries[Min(answers)].content)

\* mutant of final_answer_of: final_answer starts as the empty text, not as None
final_answer_of_or_empty(entries) ==
    LET answers == {k \in 1..Len(entries) : entries[k].type = "Answer"}
    IN  IF answers = {} THEN Some(<<>>) ELSE Some(entries[Max(answers)].content)

\* the scan `for entry in reversed(log)` that extracts final_answer
final_answer_of(entries) ==
    LET answers == {k \in 1..Len(entries) : entries[k].type = "Answer"}
    IN  IF answers = {} THEN None ELSE Some(entries[Max(answers)].content)

(* The replies of the chat-completion model, an external collaborator: each *)
(* call returns one text of a small set, or fails.                         *)

plan_TwoItems ==
    <<"1", ".", " ", "F", "i", "n", "d", " ", "t", "i", "c", "k", "e", "r", "\n", "2", ".",
      " ", "G", "e", "t", " ", "p", "r", "i", "c", "e", "\n">>
plan_NoItems == <<"N", "o", " ", "s", "t", "e", "p", "s", ".">>
plan_OneItem == <<"S", "t", "e", "p", "s", ":", "\n", " ", "1", ".", " ", "g", "o">>
thought_Plain == <<" ", "p", "o", "n", "d", "e", "r", " ">>
thought_Action == <<"A", "c", "t", "i", "o", "n", ":", " ", "f", "(", "x", ")">>
thought_Answer == <<"A", "n", "s", "w", "e", "r", ":", " ", "7">>
cont_FinalAnswer42 ==
    <<"F", "i", "n", "a", "l", " ", "A", "n", "s", "w", "e", "r", ":", " ", "4", "2">>
cont_EmptyAnswer == <<"A", "n", "s", "w", "e", "r", ":">>
cont_Search ==
    <<"A", "c", "t", "i", "o", "n", ":", " ", "S", "e", "a", "r", "c", "h", "(", "'", "b", "i",
      "t", "c", "o", "i", "n", " ", "t", "i", "c", "k", "e", "r", "'", ")">>
cont_BareAction == <<"A", "c", "t", "i", "o", "n", ":", " ", "w", "a", "i", "t">>
cont_Plan == <<"P", "l", "a", "n", ":", " ", "p">>
cont_PlanItem == <<"P", "l", "a", "n", "I", "t", "e", "m", ":", " ", "q">>
cont_Observation == <<"O", "b", "s", "e", "r", "v", "a", "t", "i", "o", "n", ":", " ", "o">>
cont_Unprefixed == <<"h", "m">>
cont_PaddedSearch ==
    <<" ", "A", "c", "t", "i", "o", "n", ":", " ", "S", "e", "a", "r", "c", "h", "(", " ", "q",
      " ", ")", " ", "\n">>

PlanReplies == {plan_TwoItems, plan_NoItems, plan_OneItem}

ThoughtReplies == {thought_Plain, thought_Action, thought_Answer}

ContinueReplies ==
    {cont_FinalAnswer42, cont_EmptyAnswer, cont_Search, cont_BareAction, cont_Plan,
     cont_PlanItem, cont_Observation, cont_Unprefixed, cont_PaddedSearch}

Init ==
    /\ pc = "plan"
    /\ plan_items = <<>>
    /\ log = <<>>
    /\ i = 0
    /\ messages = <<>>
    /\ subtask_step = 0
    /\ response_text = <<>>
    /\ continue_text = <<>>
    /\ final_answer = None
    /\ start_len = 0
    /\ plan_text = <<>>
    /\ model_calls = 0
    /\ executed = <<>>
    /\ exception = None
    /\ arg_action = None
    /\ ret_observation = None
    /\ wrapped = <<>>
    /\ reparsed = None
    /\ DeckIdle
    /\ RenderIdle
    /\ stage = "idle"
    /\ text = <<>>
    /\ result = None

\* Phase 1: the plan call returns plan_text; parse_plan; the log is initialised
GeneratePlan(reply) ==
    /\ pc = "plan"
    /\ model_calls' = model_calls + 1
    /\ plan_text' = reply
    /\ plan_items' = parse_plan(reply)
    /\ log' = <<>>
    /\ pc' = "for"
    /\ UNCHANGED <<i, messages, subtask_step, response_text, continue_text,
                   final_answer, start_len, executed, exception, fn_vars>>

\* mutant of StartSubtask: one transcript serves the whole run, each subtask
\* adding its user turn to it
StartSubtask_KeepsTranscript ==
    /\ pc = "for"
    /\ i < Len(plan_items)
    /\ LET item == plan_items[i + 1] IN
        /\ log' = Append(log, AgentResponse("PlanItem", item, None))
        /\ messages' =
                (IF messages = <<>> THEN <<Message("system", SystemInstruction)>> ELSE messages)
                    \o <<Message("user", s_Subtask \o item \o s_ThoughtCue)>>
    /\ i' = i + 1
    /\ subtask_step' = 1
    /\ start_len' = Len(log)
    /\ pc' = "think"
    /\ UNCHANGED <<plan_items, response_text, continue_text, final_answer, plan_text,
                   model_calls, executed, exception, fn_vars>>

\* the head of `for i, item in enumerate(plan_items, 1)` with an item left:
\* the PlanItem event and the fresh transcript of the subtask
StartSubtask ==
    /\ pc = "for"
    /\ i < Len(plan_items)
    /\ LET item == plan_items[i + 1] IN
        /\ log' = Append(log, AgentResponse("PlanItem", item, None))
        /\ messages' = <<Message("system", SystemInstruction),
                         Message("user", s_Subtask \o item \o s_ThoughtCue)>>
    /\ i' = i + 1
    /\ subtask_step' = 1
    /\ start_len' = Len(log)
    /\ pc' = "think"
    /\ UNCHANGED <<plan_items, response_text, continue_text, final_answer, plan_text,
                   model_calls, executed, exception, fn_vars>>

\* mutant of GenerateThought: the reply is classified as it stands, without the
\* forced "Thought: " prefix
GenerateThought_Unforced(reply) ==
    /\ pc = "think"
    /\ response_text' = reply
    /\ log' = Append(log, parse_agent_response(reply))
    /\ messages' = messages \o <<Message("assistant", reply), Message("user", s_Continue)>>
    /\ pc' = "cont"
    /\ model_calls' = model_calls + 1
    /\ UNCHANGED <<plan_items, i, subtask_step, continue_text, final_answer, start_len,
                   plan_text, executed, exception, fn_vars>>

\* mutant of GenerateThought: the assistant turn holds the text of the logged
\* event, the reply trimmed, instead of the raw reply
GenerateThought_TrimmedTurn(reply) ==
    LET parsed == parse_agent_response(s_ThoughtForced \o reply)
    IN  /\ pc = "think"
        /\ response_text' = reply
        /\ log' = Append(log, parsed)
        /\ messages' = messages \o
                <<Message("assistant", parsed.content), Message("user", s_Continue)>>
        /\ pc' = "cont"
        /\ model_calls' = model_calls + 1
        /\ UNCHANGED <<plan_items, i, subtask_step, continue_text, final_answer, start_len,
                       plan_text, executed, exception, fn_vars>>

\* mutant of GenerateThought: the Thought event holds the reply as it came,
\* not trimmed
GenerateThought_RawText(reply) ==
    /\ pc = "think"
    /\ response_text' = reply
    /\ log' = Append(log, AgentResponse("Thought", reply, None))
    /\ messages' = messages \o <<Message("assistant", reply), Message("user", s_Continue)>>
    /\ pc' = "cont"
    /\ model_calls' = model_calls + 1
    /\ UNCHANGED <<plan_items, i, subtask_step, continue_text, final_answer, start_len,
                   plan_text, executed, exception, fn_vars>>

\* mutant of GenerateThought: a reply that reads as an action is executed at once
GenerateThought_Executes(reply) ==
    LET parsed      == parse_agent_response(reply)
        observation == _execute_action(parsed)
        thought     == parse_agent_response(s_ThoughtForced \o reply)
    IN  /\ pc = "think"
        /\ response_text' = reply
        /\ IF parsed.type = "Action"
           THEN /\ log' = log \o <<thought, AgentResponse("Observation", observation, None)>>
                /\ executed' = Append(executed, [action |-> parsed,
                                                 observation |-> observation])
           ELSE /\ log' = Append(log, thought)
                /\ executed' = executed
        /\ messages' = messages \o
                <<Message("assistant", reply), Message("user", s_Continue)>>
        /\ pc' = "cont"
        /\ model_calls' = model_calls + 1
        /\ UNCHANGED <<plan_items, i, subtask_step, continue_text, final_answer, start_len,
                       plan_text, exception, fn_vars>>

\* the first call of a loop iteration returns reply: it is logged under a forced
\* "Thought: " prefix and the transcript gets the reply and "Continue:"
GenerateThought(reply) ==
    /\ pc = "think"
    /\ response_text' = reply
    /\ log' = Append(log, parse_agent_response(s_ThoughtForced \o reply))
    /\ messages' = messages \o <<Message("assistant", reply), Message("user", s_Continue)>>
    /\ pc' = "cont"
    /\ model_calls' = model_calls + 1
    /\ UNCHANGED <<plan_items, i, subtask_step, continue_text, final_answer, start_len,
                   plan_text, executed, exception, fn_vars>>

\* mutant of ContinueAction: the executor is called twice for the action
ContinueAction_ExecutesTwice(reply) ==
    LET continue_parsed == parse_agent_response(reply)
        observation     == _execute_action(continue_parsed)
    IN  /\ pc = "cont"
        /\ continue_parsed.type = "Action"
        /\ Len(log) < MaxLog
        /\ continue_text' = reply
        /\ log' = log \o <<continue_parsed, AgentResponse("Observation", observation, None)>>
        /\ messages' = messages \o
                <<Message("assistant", reply),
                  Message("user", s_ObservationCue \o observation \o s_ContinueCue)>>
        /\ subtask_step' = subtask_step + 1
        /\ pc' = "think"
        /\ model_calls' = model_calls + 1
        /\ executed' = executed \o
                <<[action |-> continue_parsed, observation |-> observation],
                  [action |-> continue_parsed, observation |-> observation]>>
        /\ UNCHANGED <<plan_items, i, response_text, final_answer, start_len, plan_text,
                       exception, fn_vars>>

\* mutant of ContinueAction: the Observation event holds the text of the user
\* turn, "Observation: " before the observation
ContinueAction_LabelledObservation(reply) ==
    LET continue_parsed == parse_agent_response(reply)
        observation     == _execute_action(continue_parsed)
    IN  /\ pc = "cont"
        /\ continue_parsed.type = "Action"
        /\ Len(log) < MaxLog
        /\ continue_text' = reply
        /\ log' = log \o <<continue_parsed,
                           AgentResponse("Observation", s_ObservationCue \o observation, None)>>
        /\ messages' = messages \o
                <<Message("assistant", reply),
                  Message("user", s_ObservationCue \o observation \o s_ContinueCue)>>
        /\ subtask_step' = subtask_step + 1
        /\ pc' = "think"
        /\ model_calls' = model_calls + 1
        /\ executed' = Append(executed, [action |-> continue_parsed,
                                         observation |-> observation])
        /\ UNCHANGED <<plan_items, i, response_text, final_answer, start_len, plan_text,
                       exception, fn_vars>>

\* the second call returns reply, classified Action: the action is executed and
\* its observation logged; the loop goes round again
ContinueAction(reply) ==
    LET continue_parsed == parse_agent_response(reply)
        observation     == _execute_action(continue_parsed)
    IN  /\ pc = "cont"
        /\ continue_parsed.type = "Action"
        /\ Len(log) < MaxLog
        /\ continue_text' = reply
        /\ log' = log \o <<continue_parsed, AgentResponse("Observation", observation, None)>>
        /\ messages' = messages \o
                <<Message("assistant", reply),
                  Message("user", s_ObservationCue \o observation \o s_ContinueCue)>>
        /\ subtask_step' = subtask_step + 1
        /\ pc' = "think"
        /\ model_calls' = model_calls + 1
        /\ executed' = Append(executed, [action |-> continue_parsed,
                                         observation |-> observation])
        /\ UNCHANGED <<plan_items, i, response_text, final_answer, start_len, plan_text,
                       exception, fn_vars>>

\* mutant of ContinueAnswer: the reply is added to the transcript
ContinueAnswer_ExtendsTranscript(reply) ==
    LET continue_parsed == parse_agent_response(reply)
    IN  /\ pc = "cont"
        /\ continue_parsed.type = "Answer"
        /\ continue_text' = reply
        /\ log' = Append(log, continue_parsed)
        /\ messages' = Append(messages, Message("assistant", reply))
        /\ pc' = "for"
        /\ model_calls' = model_calls + 1
        /\ UNCHANGED <<plan_items, i, subtask_step, response_text, final_answer,
                       start_len, plan_text, executed, exception, fn_vars>>

\* the second call returns reply, classified Answer: logged, and `break`
ContinueAnswer(reply) ==
    LET continue_parsed == parse_agent_response(reply)
    IN  /\ pc = "cont"
        /\ continue_parsed.type = "Answer"
        /\ continue_text' = reply
        /\ log' = Append(log, continue_parsed)
        /\ pc' = "for"
        /\ model_calls' = model_calls + 1
        /\ UNCHANGED <<plan_items, i, messages, subtask_step, response_text, final_answer,
                       start_len, plan_text, executed, exception, fn_vars>>

\* mutant of ContinueOther: a "Continue:" user turn follows the assistant turn,
\* as it does after a thought
ContinueOther_AddsUserTurn(reply) ==
    LET continue_parsed == parse_agent_response(reply)
    IN  /\ pc = "cont"
        /\ continue_parsed.type \notin {"Action", "Answer"}
        /\ Len(log) < MaxLog
        /\ continue_text' = reply
        /\ log' = Append(log, continue_parsed)
        /\ messages' = messages \o
                <<Message("assistant", reply), Message("user", s_Continue)>>
        /\ subtask_step' = subtask_step + 1
        /\ pc' = "think"
        /\ model_calls' = model_calls + 1
        /\ UNCHANGED <<plan_items, i, response_text, final_answer, start_len, plan_text,
                       executed, exception, fn_vars>>

\* mutant of ContinueOther: a reply classified PlanItem is added to the plan as
\* one more item
ContinueOther_ExtendsPlan(reply) ==
    LET continue_parsed == parse_agent_response(reply)
    IN  /\ pc = "cont"
        /\ continue_parsed.type \notin {"Action", "Answer"}
        /\ Len(log) < MaxLog
        /\ continue_text' = reply
        /\ log' = Append(log, continue_parsed)
        /\ plan_items' = IF continue_parsed.type = "PlanItem"
                         THEN Append(plan_items, continue_parsed.content)
                         ELSE plan_items
        /\ messages' = Append(messages, Message("assistant", reply))
        /\ subtask_step' = subtask_step + 1
        /\ pc' = "think"
        /\ model_calls' = model_calls + 1
        /\ UNCHANGED <<i, response_text, final_answer, start_len, plan_text,
                       executed, exception, fn_vars>>

\* mutant of ContinueOther: the event takes the place of the last event of the
\* log instead of being added after it
ContinueOther_Overwrite(reply) ==
    LET continue_parsed == parse_agent_response(reply)
    IN  /\ pc = "cont"
        /\ continue_parsed.type \notin {"Action", "Answer"}
        /\ Len(log) < MaxLog
        /\ continue_text' = reply
        /\ log' = [log EXCEPT ![Len(log)] = continue_parsed]
        /\ messages' = Append(messages, Message("assistant", reply))
        /\ subtask_step' = subtask_step + 1
        /\ pc' = "think"
        /\ model_calls' = model_calls + 1
        /\ UNCHANGED <<plan_items, i, response_text, final_answer, start_len, plan_text,
                       executed, exception, fn_vars>>

\* mutant of ContinueOther: the branch leaves the loop as the Answer branch does
ContinueOther_Break(reply) ==
    LET continue_parsed == parse_agent_response(reply)
    IN  /\ pc = "cont"
        /\ continue_parsed.type \notin {"Action", "Answer"}
        /\ continue_text' = reply
        /\ log' = Append(log, continue_parsed)
        /\ messages' = Append(messages, Message("assistant", reply))
        /\ pc' = "for"
        /\ model_calls' = model_calls + 1
        /\ UNCHANGED <<plan_items, i, subtask_step, response_text, final_answer,
                       start_len, plan_text, executed, exception, fn_vars>>

\* the second call returns reply, classified neither Action nor Answer: logged,
\* the reply added to the transcript; the loop goes round again
ContinueOther(reply) ==
    LET continue_parsed == parse_agent_response(reply)
    IN  /\ pc = "cont"
        /\ continue_parsed.type \notin {"Action", "Answer"}
        /\ Len(log) < MaxLog
        /\ continue_text' = reply
        /\ log' = Append(log, continue_parsed)
        /\ messages' = Append(messages, Message("assistant", reply))
        /\ subtask_step' = subtask_step + 1
        /\ pc' = "think"
        /\ model_calls' = model_calls + 1
        /\ UNCHANGED <<plan_items, i, response_text, final_answer, start_len, plan_text,
                       executed, exception, fn_vars>>

\* mutant of ReturnResult: the result is built as soon as a subtask is over,
\* whether or not plan items are left
ReturnResult_AfterAnySubtask ==
    /\ pc = "for"
    /\ final_answer' = final_answer_of(log)
    /\ pc' = "returned"
    /\ UNCHANGED <<plan_items, log, i, messages, subtask_step, response_text,
                   continue_text, start_len, plan_text, model_calls, executed, exception,
                   fn_vars>>

\* the for loop is exhausted: final_answer is extracted and the AgentResult
\* (plan_items, log, final_answer) returned
ReturnResult ==
    /\ pc = "for"
    /\ i >= Len(plan_items)
    /\ final_answer' = final_answer_of(log)
    /\ pc' = "returned"
    /\ UNCHANGED <<plan_items, log, i, messages, subtask_step, response_text,
                   continue_text, start_len, plan_text, model_calls, executed, exception,
                   fn_vars>>

\* the exceptions the model call is made to raise
ModelErrors == {"APIConnectionError", "RateLimitError"}

\* mutant of ModelFails: the failure is caught and the run returns the result
\* built from the partial log
ModelFails_ReturnsPartial(err) ==
    /\ pc \in {"plan", "think", "cont"}
    /\ model_calls' = model_calls + 1
    /\ final_answer' = final_answer_of(log)
    /\ pc' = "returned"
    /\ UNCHANGED <<plan_items, log, i, messages, subtask_step, response_text,
                   continue_text, start_len, plan_text, executed, exception, fn_vars>>

\* client.chat.completions.create raises err: nothing in run_agent catches it,
\* so it leaves run_agent and no AgentResult is returned
ModelFails(err) ==
    /\ pc \in {"plan", "think", "cont"}
    /\ model_calls' = model_calls + 1
    /\ exception' = Some(err)
    /\ pc' = "raised"
    /\ UNCHANGED <<plan_items, log, i, messages, subtask_step, response_text,
                   continue_text, final_answer, start_len, plan_text, executed, fn_vars>>

Next ==
    \/ \E reply \in PlanReplies : GeneratePlan(reply)
    \/ StartSubtask
    \/ \E reply \in ThoughtReplies : GenerateThought(reply)
    \/ \E reply \in ContinueReplies : ContinueAction(reply)
    \/ \E reply \in ContinueReplies : ContinueAnswer(reply)
    \/ \E reply \in ContinueReplies : ContinueOther(reply)
    \/ ReturnResult
    \/ \E err \in ModelErrors : ModelFails(err)

Spec == Init /\ [][Next]_vars

(* The same run against a model whose replies are one text of each class  *)
(* the loop tells apart (Answer, Action, anything else), under fairness:   *)
(* the model answers every call, and a continuation call that is made      *)
(* again and again is in the end answered by an Answer-classified reply.   *)

LiveThoughtReplies == {thought_Plain, thought_Answer}

LiveContinueReplies == {cont_FinalAnswer42, cont_Search, cont_Unprefixed}

LiveNext ==
    \/ \E reply \in PlanReplies : GeneratePlan(reply)
    \/ StartSubtask
    \/ \E reply \in LiveThoughtReplies : GenerateThought(reply)
    \/ \E reply \in LiveContinueReplies : ContinueAction(reply)
    \/ \E reply \in LiveContinueReplies : ContinueAnswer(reply)
    \/ \E reply \in LiveContinueReplies : ContinueOther(reply)
    \/ ReturnResult
    \/ \E err \in ModelErrors : ModelFails(err)

Fairness ==
    /\ WF_vars(\E reply \in PlanReplies : GeneratePlan(reply))
    /\ WF_vars(StartSubtask)
    /\ WF_vars(\E reply \in LiveThoughtReplies : GenerateThought(reply))
    /\ SF_vars(\E reply \in LiveContinueReplies : ContinueAnswer(reply))
    /\ WF_vars(ReturnResult)

LiveSpec == Init /\ [][LiveNext]_vars /\ Fairness

-----------------------------------------------------------------------------
(* Claims about run_agent.                                                 *)

\* the positions of the events of kind k in a log
PositionsOf(entries, k) == {n \in 1..Len(entries) : entries[n].type = k}

\* a reply that is classified Answer: trimmed, it begins with an answer prefix
IsAnswerText(t) == HasPrefix(Trim(t), s_FinalAnswer) \/ HasPrefix(Trim(t), s_Answer)

\* a step in which a continuation reply is received and handled
ContinuationStep == pc = "cont" /\ pc' \notin {"cont", "raised"}

\* C5: on return final_answer is the text of the last Answer event of the log,
\* and it is absent exactly when the log holds no Answer event.
C5_FinalAnswerIsLastAnswer ==
    pc = "returned" =>
        /\ (final_answer = None) <=> (PositionsOf(log, "Answer") = {})
        /\ \A n \in PositionsOf(log, "Answer") :
               (\A m \in PositionsOf(log, "Answer") : m <= n)
                   => final_answer = Some(log[n].content)

C5_Witness ==
    /\ pc = "returned"
    /\ \E n, m \in PositionsOf(log, "Answer") :
           /\ n < m
           /\ log[n].content = <<"4", "2">>
           /\ log[m].content = <<>>
    /\ final_answer = Some(<<>>)

\* C6: a subtask whose first continuation reply is classified Answer adds exactly
\* PlanItem, Thought, Answer to the log; a run with one plan item whose first
\* continuation reply is "Final Answer: 42" returns that three-event log and
\* final_answer "42".
C6_ImmediateAnswer ==
    /\ [][(ContinuationStep /\ subtask_step = 1 /\ IsAnswerText(continue_text')) =>
            /\ Len(log') = start_len + 3
            /\ SubSeq(log', 1, start_len) = SubSeq(log, 1, start_len)
            /\ log'[start_len + 1] =
                   [type |-> "PlanItem", content |-> plan_items[i], metadata |-> None]
            /\ log'[start_len + 2].type = "Thought"
            /\ log'[start_len + 3].type = "Answer"
            /\ log'[start_len + 3].content = Trim(AfterPrefix(Trim(continue_text'),
                   IF HasPrefix(Trim(continue_text'), s_FinalAnswer)
                   THEN s_FinalAnswer ELSE s_Answer))]_vars
    /\ [](( /\ pc = "returned"
            /\ Len(plan_items) = 1
            /\ subtask_step = 1
            /\ continue_text = cont_FinalAnswer42) =>
                /\ [n \in 1..Len(log) |-> log[n].type] = <<"PlanItem", "Thought", "Answer">>
                /\ final_answer = Some(<<"4", "2">>))

C6_Witness ==
    /\ pc = "returned"
    /\ Len(plan_items) = 1
    /\ subtask_step = 1
    /\ continue_text = cont_FinalAnswer42
    /\ response_text = thought_Answer
    /\ Len(log) = 3
    /\ final_answer = Some(<<"4", "2">>)

\* C7: every step leaves the events already in the log in place and unchanged,
\* and only adds events at the end.
C7_LogAppendOnly ==
    [][Len(log') >= Len(log) /\ SubSeq(log', 1, Len(log)) = log]_vars

C7_Witness ==
    /\ pc = "returned"
    /\ Len(log) >= 6
    /\ PositionsOf(log, "Observation") # {}
    /\ \E n, m \in 1..Len(log) : n < m /\ log[n] = log[m]

\* C8 (as claimed): in the log of a run that returns, the events of kind PlanItem
\* are as many as the plan items and the n-th of them has the text of the n-th
\* plan item.
C8_PlanItemEventsMatchPlan ==
    pc = "returned" =>
        /\ Cardinality(PositionsOf(log, "PlanItem")) = Len(plan_items)
        /\ \A n \in PositionsOf(log, "PlanItem") :
               LET rank == Cardinality({m \in PositionsOf(log, "PlanItem") : m <= n})
               IN  rank <= Len(plan_items) /\ log[n].content = plan_items[rank]

\* C9 (as claimed): no event of kind Plan is ever in the log.
C9_NoPlanEvent ==
    \A n \in 1..Len(log) :
        log[n].type \in {"PlanItem", "Thought", "Action", "Observation", "Answer"}

\* C10: the subtask loop is left only by a failing model call or on a
\* continuation reply classified Answer, whatever the number of rounds; and when
\* every subtask's continuation calls are in the end answered by an Answer, the
\* run ends.
C10_LoopEndsOnAnswerOnly ==
    /\ [][(pc \in {"think", "cont"} /\ pc' \notin {"think", "cont", "raised"}) =>
            (pc = "cont" /\ IsAnswerText(continue_text'))]_vars
    /\ <>(pc \in {"returned", "raised"})

C10_Witness ==
    /\ pc = "returned"
    /\ subtask_step >= 3
    /\ IsAnswerText(continue_text)

-----------------------------------------------------------------------------
(* Failure of the model call                                               *)

\* a model call is answered or fails in this step
ModelCallStep == pc \in {"plan", "think", "cont"} /\ pc' # pc

\* C11: when a model call fails the run aborts there: the caller gets the very
\* error the call raised, no result is returned, and from then on no model
\* call, no action execution and no log append happens
C11_FailureAborts ==
    /\ [][(exception = None /\ exception' # None) =>
              /\ ModelCallStep
              /\ exception' \in {Some(err) : err \in ModelErrors}
              /\ pc' = "raised"
              /\ log' = log
              /\ executed' = executed]_vars
    /\ [][(ModelCallStep /\ pc' \notin {"for", "think", "cont"}) =>
              exception' # None]_vars
    /\ [][exception # None =>
              /\ exception' = exception
              /\ model_calls' = model_calls
              /\ executed' = executed
              /\ log' = log]_vars
    /\ [](exception # None => pc = "raised" /\ final_answer = None)
    /\ [](pc = "raised" => exception # None)

C11_Witness ==
    /\ pc = "raised"
    /\ exception = Some("RateLimitError")
    /\ Len(log) >= 3
    /\ model_calls >= 4

-----------------------------------------------------------------------------
(* The empty plan                                                          *)

\* the plan reply has been received and none of its lines is a numbered line
PlanReplyHasNoNumberedLine ==
    /\ pc \notin {"plan", "raised"}
    /\ \A n \in 1..Len(LinesOf(plan_text)) : ~IsNumbered(LinesOf(plan_text)[n])

\* C12: when the plan reply holds no numbered line, the subtask loop is never
\* entered and run_agent returns an empty plan, an empty log and no final
\* answer, after exactly one model call and no call of the action executor
C12_EmptyPlanReturnsEmpty ==
    PlanReplyHasNoNumberedLine =>
        /\ pc \in {"for", "returned"}
        /\ plan_items = <<>>
        /\ log = <<>>
        /\ final_answer = None
        /\ model_calls = 1
        /\ executed = <<>>

C12_Witness ==
    /\ PlanReplyHasNoNumberedLine
    /\ pc = "returned"
    /\ plan_text = plan_NoItems

-----------------------------------------------------------------------------
(* Direct calls of _execute_action                                         *)

\* parts of queries, and action names
exec_text ==
    [Bitcoin_Ticker |-> <<"B", "i", "t", "c", "o", "i", "n", " ", "T", "I", "C", "K", "E",
           "R">>,
     Price_Of_BTC |-> <<"P", "r", "i", "c", "e", " ", "o", "f", " ", "B", "T", "C">>,
     WEATHER |-> <<"W", "E", "A", "T", "H", "E", "R">>,
     bitcoin |-> <<"b", "i", "t", "c", "o", "i", "n">>,
     ticker |-> <<"t", "i", "c", "k", "e", "r">>,
     price |-> <<"P", "r", "i", "c", "e">>,
     name_search_lc |-> <<"s", "e", "a", "r", "c", "h">>,
     name_Lookup |-> <<"L", "o", "o", "k", "u", "p">>,
     name_Search_padded |-> <<"S", "e", "a", "r", "c", "h", " ">>]

\* the Action events handed to _execute_action: with the metadata the parser
\* builds (name, params), without metadata, and the events of two replies
ExecInputs ==
    LET QueryParts ==
            {<<>>, s_bitcoin_ticker, exec_text.Bitcoin_Ticker, s_price_of_btc,
             exec_text.Price_Of_BTC, s_bitcoin_price, s_weather, exec_text.WEATHER,
             exec_text.bitcoin, exec_text.ticker, exec_text.price}
        \* the queries: two parts, joined with or without a space
        Queries ==
            {a \o sep \o b : a \in QueryParts, b \in QueryParts, sep \in {<<>>, <<" ">>}}
        ActionNames ==
            {s_Search, exec_text.name_search_lc, exec_text.name_Search_padded,
             exec_text.name_Lookup, <<>>}
    IN  {AgentResponse("Action", <<>>, Some([name |-> n, params |-> q])) :
            n \in ActionNames, q \in Queries}
        \cup {AgentResponse("Action", c, None) : c \in {<<>>, exec_text.ticker}}
        \cup {parse_agent_response(cont_Search), parse_agent_response(cont_BareAction)}

ExecInit ==
    /\ stage = "call"
    /\ arg_action \in {Some(a) : a \in ExecInputs}
    /\ ret_observation = None
    /\ wrapped = <<>>
    /\ reparsed = None
    /\ DeckIdle
    /\ RenderIdle
    /\ text = <<>>
    /\ result = None
    /\ pc = "idle"
    /\ plan_items = <<>>
    /\ log = <<>>
    /\ i = 0
    /\ messages = <<>>
    /\ subtask_step = 0
    /\ response_text = <<>>
    /\ continue_text = <<>>
    /\ final_answer = None
    /\ start_len = 0
    /\ plan_text = <<>>
    /\ model_calls = 0
    /\ executed = <<>>
    /\ exception = None

CallExecuteAction ==
    /\ stage = "call"
    /\ arg_action # None
    /\ ret_observation' = Some(_execute_action(CHOOSE a \in arg_action : TRUE))
    /\ stage' = "ret"
    /\ UNCHANGED <<text, result, again_vars, arg_action, agent_vars, deck_vars,
                   render_vars>>

ExecNext == CallExecuteAction

ExecSpec == ExecInit /\ [][ExecNext]_vars

\* two characters are the same letter, whatever their case
SameLetterAnyCase(a, b) ==
    a = b \/ \E u \in DOMAIN UpperCase : {a, b} = {UpperCase[u], LowerCase[u]}

\* key occurs in q as a substring, letter case ignored
MentionsAnyCase(q, key) ==
    \E off \in 0..(Len(q) - Len(key)) :
        \A k \in 1..Len(key) : SameLetterAnyCase(q[off + k], key[k])

Executed == CHOOSE a \in arg_action : TRUE

Observed == CHOOSE o \in ret_observation : TRUE

IsSearch(a) == a.metadata # None /\ (CHOOSE m \in a.metadata : TRUE).name = s_Search

QueryOf(a) == (CHOOSE m \in a.metadata : TRUE).params

\* C13: for an action named exactly "Search" the stub executor returns the
\* first canned result whose key the query mentions, letter case ignored, in
\* the order bitcoin ticker, price of btc or bitcoin price, weather, and
\* otherwise the template around the query; for every other action, and for
\* one without metadata, it returns the fixed text; the event of the reply
\* "Action: Search('bitcoin ticker')" gives "BTC"
C13_ExecutorCannedResults ==
    (stage = "ret" /\ ret_observation # None) =>
        /\ IsSearch(Executed) /\ MentionsAnyCase(QueryOf(Executed), s_bitcoin_ticker)
              => Observed = s_BTC
        /\ ( /\ IsSearch(Executed)
             /\ ~MentionsAnyCase(QueryOf(Executed), s_bitcoin_ticker)
             /\ \/ MentionsAnyCase(QueryOf(Executed), s_price_of_btc)
                \/ MentionsAnyCase(QueryOf(Executed), s_bitcoin_price) )
              => Observed = s_54000
        /\ ( /\ IsSearch(Executed)
             /\ ~MentionsAnyCase(QueryOf(Executed), s_bitcoin_ticker)
             /\ ~MentionsAnyCase(QueryOf(Executed), s_price_of_btc)
             /\ ~MentionsAnyCase(QueryOf(Executed), s_bitcoin_price)
             /\ MentionsAnyCase(QueryOf(Executed), s_weather) )
              => Observed = s_72F
        /\ ( /\ IsSearch(Executed)
             /\ \A key \in {s_bitcoin_ticker, s_price_of_btc, s_bitcoin_price, s_weather} :
                    ~MentionsAnyCase(QueryOf(Executed), key) )
              => Observed = s_SearchResultsFor \o QueryOf(Executed) \o s_VariousFound
        /\ ~IsSearch(Executed) => Observed = s_ActionExecuted
        /\ Executed = parse_agent_response(cont_Search) => Observed = s_BTC

\* a query that mentions two keys in capitals, the later key first in the text
C13_Witness ==
    /\ stage = "ret"
    /\ ret_observation = Some(s_BTC)
    /\ IsSearch(Executed)
    /\ QueryOf(Executed) = exec_text.WEATHER \o <<" ">> \o exec_text.Bitcoin_Ticker

-----------------------------------------------------------------------------
(* Classifying the classified text again                                   *)

\* the recognized prefix the text carries, <<>> when it carries none
CarriedPrefix(t) ==
    IF \E p \in Prefixes : HasPrefix(Trim(t), p)
    THEN CHOOSE p \in Prefixes : HasPrefix(Trim(t), p)
    ELSE <<>>

\* C14: the event returned for a text is returned again, the same in kind,
\* text and metadata, when its own text is classified behind the prefix the
\* first text carried, or alone when the first text carried none
C14_ClassificationIdempotent ==
    (stage = "again" /\ result # None) =>
        /\ \/ wrapped = CarriedPrefix(text) \o Returned.content
           \/ wrapped = CarriedPrefix(text) \o <<" ">> \o Returned.content
        /\ CarriedPrefix(text) = <<>> => wrapped = Returned.content
        /\ reparsed # None
        /\ \A again \in reparsed :
               /\ again.type = Returned.type
               /\ again.content = Returned.content
               /\ again.metadata = Returned.metadata

\* an Action text with surrounding whitespace and a quoted argument, classified
\* again behind "Action:" with its metadata
C14_Witness ==
    /\ stage = "again"
    /\ text # Trim(text)
    /\ CarriedPrefix(text) = s_Action
    /\ Returned.metadata # None
    /\ reparsed = result
    /\ wrapped # Trim(text)

-----------------------------------------------------------------------------
(* deck_generator.py: DeckGenerator(use_llm=False), so that self.client is *)
(* None and every text comes from the fallback templates                    *)

\* the texts of the fallback templates
deck_text ==
    [PresentationColon |-> <<"P", "r", "e", "s", "e", "n", "t", "a", "t", "i", "o", "n",
           ":", " ">>,
     ExpertPresenter |-> <<"E", "x", "p", "e", "r", "t", " ", "P", "r", "e", "s", "e", "n",
           "t", "e", "r">>,
     AnInformative |-> <<"A", "n", " ", "i", "n", "f", "o", "r", "m", "a", "t", "i", "v",
           "e", " ", "p", "r", "e", "s", "e", "n", "t", "a", "t", "i", "o", "n", " ", "a",
           "b", "o", "u", "t", " ">>,
     light |-> <<"l", "i", "g", "h", "t">>,
     KeyInsights |-> <<"K", "e", "y", " ", "I", "n", "s", "i", "g", "h", "t", "s", " ",
           "a", "n", "d", " ", "I", "n", "f", "o", "r", "m", "a", "t", "i", "o", "n">>,
     LetsExplore |-> <<"L", "e", "t", "'", "s", " ", "e", "x", "p", "l", "o", "r", "e",
           " ", "t", "h", "i", "s", " ", "t", "o", "p", "i", "c", " ", "t", "o", "g", "e",
           "t", "h", "e", "r">>,
     KeyAspectsOf |-> <<"K", "e", "y", " ", "A", "s", "p", "e", "c", "t", "s", " ", "o",
           "f", " ">>,
     AspectHead |-> <<"#", " ", "A", "s", "p", "e", "c", "t", " ">>,
     PointsLeft |-> <<"A", "\n", "\n", "-", " ", "P", "o", "i", "n", "t", " ", "1", "\n",
           "-", " ", "P", "o", "i", "n", "t", " ", "2", "\n", "-", " ", "P", "o", "i", "n",
           "t", " ", "3">>,
     PointsRight |-> <<"B", "\n", "\n", "-", " ", "P", "o", "i", "n", "t", " ", "A", "\n",
           "-", " ", "P", "o", "i", "n", "t", " ", "B", "\n", "-", " ", "P", "o", "i", "n",
           "t", " ", "C">>,
     ImportantPoints |-> <<"I", "m", "p", "o", "r", "t", "a", "n", "t", " ", "P", "o", "i",
           "n", "t", "s", " ", "a", "b", "o", "u", "t", " ">>,
     Consider |-> <<"C", "o", "n", "s", "i", "d", "e", "r", " ", "t", "h", "e", "s", "e",
           " ", "k", "e", "y", " ", "f", "a", "c", "t", "o", "r", "s", ":">>,
     KeyPoint |-> <<"K", "e", "y", " ", "p", "o", "i", "n", "t", " ">>,
     about |-> <<" ", "a", "b", "o", "u", "t", " ">>,
     Visualizing |-> <<"V", "i", "s", "u", "a", "l", "i", "z", "i", "n", "g", " ">>,
     Url600 |-> <<"h", "t", "t", "p", "s", ":", "/", "/", "v", "i", "a", ".", "p", "l",
           "a", "c", "e", "h", "o", "l", "d", "e", "r", ".", "c", "o", "m", "/", "6", "0",
           "0", "x", "4", "0", "0", "/", "4", "a", "9", "e", "f", "f", "/", "f", "f", "f",
           "f", "f", "f", "?", "t", "e", "x", "t", "=">>,
     AVisual |-> <<"A", " ", "v", "i", "s", "u", "a", "l", " ", "r", "e", "p", "r", "e",
           "s", "e", "n", "t", "a", "t", "i", "o", "n", " ", "o", "f", " ">>,
     ThisDiagram |-> <<"T", "h", "i", "s", " ", "d", "i", "a", "g", "r", "a", "m", " ",
           "i", "l", "l", "u", "s", "t", "r", "a", "t", "e", "s", " ", "t", "h", "e", " ",
           "k", "e", "y", " ", "c", "o", "n", "c", "e", "p", "t", "s", " ", "o", "f", " ">>,
     Understanding |-> <<".", " ", "U", "n", "d", "e", "r", "s", "t", "a", "n", "d", "i",
           "n", "g", " ", "t", "h", "e", "s", "e", " ", "v", "i", "s", "u", "a", "l", " ",
           "e", "l", "e", "m", "e", "n", "t", "s", " ", "h", "e", "l", "p", "s", " ", "g",
           "r", "a", "s", "p", " ", "t", "h", "e", " ", "c", "o", "m", "p", "l", "e", "x",
           "i", "t", "y", " ", "a", "n", "d", " ", "r", "e", "l", "a", "t", "i", "o", "n",
           "s", "h", "i", "p", "s", " ", "i", "n", "v", "o", "l", "v", "e", "d", ".">>,
     QuoteKay |-> <<"T", "h", "e", " ", "b", "e", "s", "t", " ", "w", "a", "y", " ", "t",
           "o", " ", "p", "r", "e", "d", "i", "c", "t", " ", "t", "h", "e", " ", "f", "u",
           "t", "u", "r", "e", " ", "i", "s", " ", "t", "o", " ", "i", "n", "v", "e", "n",
           "t", " ", "i", "t", ".">>,
     AlanKay |-> <<"A", "l", "a", "n", " ", "K", "a", "y">>,
     QuoteJobs1 |-> <<"I", "n", "n", "o", "v", "a", "t", "i", "o", "n", " ", "d", "i", "s",
           "t", "i", "n", "g", "u", "i", "s", "h", "e", "s", " ", "b", "e", "t", "w", "e",
           "e", "n", " ", "a", " ", "l", "e", "a", "d", "e", "r", " ", "a", "n", "d", " ",
           "a", " ", "f", "o", "l", "l", "o", "w", "e", "r", ".">>,
     SteveJobs |-> <<"S", "t", "e", "v", "e", " ", "J", "o", "b", "s">>,
     QuoteJobs2 |-> <<"T", "h", "e", " ", "o", "n", "l", "y", " ", "w", "a", "y", " ", "t",
           "o", " ", "d", "o", " ", "g", "r", "e", "a", "t", " ", "w", "o", "r", "k", " ",
           "i", "s", " ", "t", "o", " ", "l", "o", "v", "e", " ", "w", "h", "a", "t", " ",
           "y", "o", "u", " ", "d", "o", ".">>,
     InPractice |-> <<" ", "i", "n", " ", "P", "r", "a", "c", "t", "i", "c", "e">>,
     Url800 |-> <<"h", "t", "t", "p", "s", ":", "/", "/", "v", "i", "a", ".", "p", "l",
           "a", "c", "e", "h", "o", "l", "d", "e", "r", ".", "c", "o", "m", "/", "8", "0",
           "0", "x", "6", "0", "0", "/", "0", "0", "6", "6", "c", "c", "/", "f", "f", "f",
           "f", "f", "f", "?", "t", "e", "x", "t", "=">>,
     PlusVisualization |-> <<"+", "V", "i", "s", "u", "a", "l", "i", "z", "a", "t", "i",
           "o", "n">>,
     RealWorld |-> <<"R", "e", "a", "l", "-", "w", "o", "r", "l", "d", " ", "a", "p", "p",
           "l", "i", "c", "a", "t", "i", "o", "n", " ", "o", "f", " ">>]

\* s.replace(old, new) for one-character old and new
replace(s, old, new) == [k \in 1..Len(s) |-> IF s[k] = old THEN new ELSE s[k]]

\* str(n) for a natural number n
RECURSIVE str_int(_)
str_int(n) ==
    LET digits == <<"0", "1", "2", "3", "4", "5", "6", "7", "8", "9">> IN
    IF n < 10 THEN <<digits[n + 1]>> ELSE str_int(n \div 10) \o <<digits[(n % 10) + 1]>>

\* asdict(Slide(layout, content))
Slide(layout, content) == [layout |-> layout, content |-> content]

_generate_metadata(tp) ==
    [title       |-> deck_text.PresentationColon \o tp,
     author      |-> deck_text.ExpertPresenter,
     description |-> deck_text.AnInformative \o tp,
     theme       |-> deck_text.light]

_generate_title_slide(tp) ==
    Slide("title", [title    |-> tp,
                    subtitle |-> deck_text.KeyInsights,
                    content  |-> deck_text.LetsExplore])

\* the (quote, author) pairs random.choice picks from
quotes ==
    <<<<deck_text.QuoteKay, deck_text.AlanKay>>,
      <<deck_text.QuoteJobs1, deck_text.SteveJobs>>,
      <<deck_text.QuoteJobs2, deck_text.SteveJobs>>>>

layouts == <<"two_column", "bullet_points", "image_text", "quote", "full_image">>

\* _generate_slide_by_layout(topic, layout, slide_num), chosen being the pair
\* random.choice returns
_generate_slide_by_layout(tp, layout, slide_num, chosen) ==
    IF layout = "two_column" THEN
        Slide("two_column",
              [title         |-> deck_text.KeyAspectsOf \o tp,
               left_content  |-> deck_text.AspectHead \o str_int(slide_num) \o deck_text.PointsLeft,
               right_content |->
                   deck_text.AspectHead \o str_int(slide_num) \o deck_text.PointsRight])
    ELSE IF layout = "bullet_points" THEN
        Slide("bullet_points",
              [title   |-> deck_text.ImportantPoints \o tp,
               content |-> deck_text.Consider,
               bullets |->
                   [n \in 1..5 |->
                       deck_text.KeyPoint \o str_int(n) \o deck_text.about \o tp]])
    ELSE IF layout = "image_text" THEN
        Slide("image_text",
              [title         |-> deck_text.Visualizing \o tp,
               image_url     |-> deck_text.Url600 \o replace(tp, " ", "+"),
               image_caption |-> deck_text.AVisual \o tp,
               content       |-> deck_text.ThisDiagram \o tp \o deck_text.Understanding])
    ELSE IF layout = "quote" THEN
        Slide("quote", [quote |-> chosen[1], author |-> chosen[2]])
    ELSE
        Slide("full_image",
              [title         |-> tp \o deck_text.InPractice,
               image_url     |->
                   deck_text.Url800 \o replace(tp, " ", "+") \o deck_text.PlusVisualization,
               image_caption |-> deck_text.RealWorld \o tp])

\* the values the slider of the presentation builder offers (main.py:40-46)
SliderMin == 3
SliderMax == 10

\* the cap of `min(num_slides, 6)`
SlideCap == 6

\* none of the other functions is being called
OthersIdle ==
    /\ text = <<>>
    /\ result = None
    /\ wrapped = <<>>
    /\ reparsed = None
    /\ arg_action = None
    /\ ret_observation = None
    /\ pc = "idle"
    /\ plan_items = <<>>
    /\ log = <<>>
    /\ i = 0
    /\ messages = <<>>
    /\ subtask_step = 0
    /\ response_text = <<>>
    /\ continue_text = <<>>
    /\ final_answer = None
    /\ start_len = 0
    /\ plan_text = <<>>
    /\ model_calls = 0
    /\ executed = <<>>
    /\ exception = None

DeckInit ==
    /\ stage = "call"
    /\ topic \in {<<"A", "I">>, <<"W", "e", "b", " ", "D", "e", "v">>, <<>>}
    /\ num_slides \in SliderMin..SliderMax
    /\ slides = <<>>
    /\ slide_i = 0
    /\ deck = None
    /\ OthersIdle
    /\ RenderIdle

\* _generate_slides up to the for loop: the title slide is appended
AppendTitleSlide ==
    /\ stage = "call"
    /\ slides' = Append(slides, _generate_title_slide(topic))
    /\ slide_i' = 1
    /\ stage' = "loop"
    /\ UNCHANGED <<topic, num_slides, deck, text, result, again_vars, exec_vars,
                   render_vars, agent_vars>>

\* one iteration of `for i in range(1, min(num_slides, 6))`
AppendLayoutSlide(chosen) ==
    /\ stage = "loop"
    /\ slide_i < Min({num_slides, SlideCap})
    /\ LET layout == layouts[((slide_i - 1) % Len(layouts)) + 1]
       IN  slides' = Append(slides,
                            _generate_slide_by_layout(topic, layout, slide_i + 1, chosen))
    /\ slide_i' = slide_i + 1
    /\ UNCHANGED <<stage, topic, num_slides, deck, text, result, again_vars, exec_vars,
                   render_vars, agent_vars>>

\* the loop is exhausted: generate_deck builds the deck and returns it
ReturnDeck ==
    /\ stage = "loop"
    /\ slide_i >= Min({num_slides, SlideCap})
    /\ LET metadata == _generate_metadata(topic)
       IN  deck' = Some([title       |-> metadata.title,
                         author      |-> metadata.author,
                         description |-> metadata.description,
                         theme       |-> metadata.theme,
                         slides      |-> slides])
    /\ stage' = "ret"
    /\ UNCHANGED <<topic, num_slides, slides, slide_i, text, result, again_vars,
                   exec_vars, render_vars, agent_vars>>

DeckNext ==
    \/ AppendTitleSlide
    \/ \E k \in 1..Len(quotes) : AppendLayoutSlide(quotes[k])
    \/ ReturnDeck

DeckSpec == DeckInit /\ [][DeckNext]_vars

GeneratedDeck == CHOOSE d \in deck : TRUE

\* C15: the deck generate_deck returns holds exactly num_slides slides, for
\* every num_slides of the slider's range 3..10, and its first slide has the
\* layout "title"
C15_SlideCountAsRequested ==
    (stage = "ret" /\ deck # None /\ num_slides \in 3..10) =>
        /\ Len(GeneratedDeck.slides) = num_slides
        /\ GeneratedDeck.slides[1].layout = "title"

-----------------------------------------------------------------------------
(* html_renderer.py.  The values handed to the renderer are JSON-like       *)
(* Python values, each with its type t and its value v; a dict with string  *)
(* keys is a function from its keys.  A text is a sequence of characters;   *)
(* the two style sheets the document embeds are one character each.         *)

\* a Python value of type t
Py(t, v) == [t |-> t, v |-> v]

\* the literal texts of html_renderer.py (the dash of the quote author is "--")
html_text ==
    [title |-> <<"t", "i", "t", "l", "e">>,
     two_column |-> <<"t", "w", "o", "_", "c", "o", "l", "u", "m", "n">>,
     image_text |-> <<"i", "m", "a", "g", "e", "_", "t", "e", "x", "t">>,
     bullet_points |-> <<"b", "u", "l", "l", "e", "t", "_", "p", "o", "i", "n", "t", "s">>,
     quote |-> <<"q", "u", "o", "t", "e">>,
     full_image |-> <<"f", "u", "l", "l", "_", "i", "m", "a", "g", "e">>,
     invalid_layout |-> <<"i", "n", "v", "a", "l", "i", "d", "_", "l", "a", "y", "o", "u",
           "t">>,
     get |-> <<"g", "e", "t">>,
     split |-> <<"s", "p", "l", "i", "t">>,
     NoneType |-> <<"N", "o", "n", "e", "T", "y", "p", "e">>,
     str |-> <<"s", "t", "r">>,
     int |-> <<"i", "n", "t">>,
     list |-> <<"l", "i", "s", "t">>,
     dict |-> <<"d", "i", "c", "t">>,
     brackets |-> <<"[", "]">>,
     braces |-> <<"{", "}">>,
     hash_sp |-> <<"#", " ">>,
     hash2_sp |-> <<"#", "#", " ">>,
     dash_sp |-> <<"-", " ">>,
     base_styles |-> <<"{base_styles}">>,
     theme_styles |-> <<"{theme_styles}">>,
     UntitledPresentation |-> <<"U", "n", "t", "i", "t", "l", "e", "d", " ", "P", "r", "e",
           "s", "e", "n", "t", "a", "t", "i", "o", "n">>,
     UntitledSlide |-> <<"U", "n", "t", "i", "t", "l", "e", "d", " ", "S", "l", "i", "d",
           "e">>,
     NoQuote |-> <<"N", "o", " ", "q", "u", "o", "t", "e", " ", "p", "r", "o", "v", "i",
           "d", "e", "d">>,
     NoImage |-> <<"<", "p", ">", "N", "o", " ", "i", "m", "a", "g", "e", " ", "p", "r",
           "o", "v", "i", "d", "e", "d", "<", "/", "p", ">">>,
     SlideImage |-> <<"S", "l", "i", "d", "e", " ", "i", "m", "a", "g", "e">>,
     FullImage |-> <<"F", "u", "l", "l", " ", "i", "m", "a", "g", "e">>,
     None_ |-> <<"N", "o", "n", "e">>,
     ErrorDeck |-> <<"E", "r", "r", "o", "r", " ", "r", "e", "n", "d", "e", "r", "i", "n",
           "g", " ", "d", "e", "c", "k", ":", " ">>,
     ErrorSlide |-> <<"E", "r", "r", "o", "r", " ", "r", "e", "n", "d", "e", "r", "i", "n",
           "g", " ", "s", "l", "i", "d", "e", " ">>,
     colon |-> <<":", " ">>,
     obj_open |-> <<"'">>,
     no_attribute |-> <<"'", " ", "o", "b", "j", "e", "c", "t", " ", "h", "a", "s", " ",
           "n", "o", " ", "a", "t", "t", "r", "i", "b", "u", "t", "e", " ", "'">>,
     obj_close |-> <<"'">>,
     not_iterable |-> <<"'", " ", "o", "b", "j", "e", "c", "t", " ", "i", "s", " ", "n",
           "o", "t", " ", "i", "t", "e", "r", "a", "b", "l", "e">>,
     open_title |-> <<"\n", " ", " ", " ", " ", " ", " ", " ", " ", "<", "d", "i", "v",
           " ", "c", "l", "a", "s", "s", "=", "\"", "s", "l", "i", "d", "e", " ", "t", "i",
           "t", "l", "e", "-", "s", "l", "i", "d", "e", "\"", ">", "\n", " ", " ", " ",
           " ", " ", " ", " ", " ", " ", " ", " ", " ", "<", "s", "p", "a", "n", " ", "c",
           "l", "a", "s", "s", "=", "\"", "s", "l", "i", "d", "e", "-", "n", "u", "m", "b",
           "e", "r", "\"", ">", "S", "l", "i", "d", "e", " ">>,
     open_slide |-> <<"\n", " ", " ", " ", " ", " ", " ", " ", " ", "<", "d", "i", "v",
           " ", "c", "l", "a", "s", "s", "=", "\"", "s", "l", "i", "d", "e", "\"", ">",
           "\n", " ", " ", " ", " ", " ", " ", " ", " ", " ", " ", " ", " ", "<", "s", "p",
           "a", "n", " ", "c", "l", "a", "s", "s", "=", "\"", "s", "l", "i", "d", "e", "-",
           "n", "u", "m", "b", "e", "r", "\"", ">", "S", "l", "i", "d", "e", " ">>,
     open_error |-> <<"\n", " ", " ", " ", " ", " ", " ", " ", " ", "<", "d", "i", "v",
           " ", "c", "l", "a", "s", "s", "=", "\"", "s", "l", "i", "d", "e", " ", "e", "r",
           "r", "o", "r", "-", "s", "l", "i", "d", "e", "\"", ">", "\n", " ", " ", " ",
           " ", " ", " ", " ", " ", " ", " ", " ", " ", "<", "h", "2", ">", "R", "e", "n",
           "d", "e", "r", "i", "n", "g", " ", "E", "r", "r", "o", "r", "<", "/", "h", "2",
           ">", "\n", " ", " ", " ", " ", " ", " ", " ", " ", " ", " ", " ", " ", "<", "p",
           ">">>,
     close_error |-> <<"<", "/", "p", ">", "\n", " ", " ", " ", " ", " ", " ", " ", " ",
           "<", "/", "d", "i", "v", ">", "\n", " ", " ", " ", " ", " ", " ", " ", " ">>,
     span_h2 |-> <<"<", "/", "s", "p", "a", "n", ">", "\n", " ", " ", " ", " ", " ", " ",
           " ", " ", " ", " ", " ", " ", "<", "h", "2", ">">>,
     span |-> <<"<", "/", "s", "p", "a", "n", ">", "\n", " ", " ", " ", " ", " ", " ", " ",
           " ", " ", " ", " ", " ">>,
     h2 |-> <<"<", "h", "2", ">">>,
     h2_ |-> <<"<", "/", "h", "2", ">">>,
     h3 |-> <<"<", "h", "3", ">">>,
     h3_ |-> <<"<", "/", "h", "3", ">">>,
     h4 |-> <<"<", "h", "4", ">">>,
     h4_ |-> <<"<", "/", "h", "4", ">">>,
     p |-> <<"<", "p", ">">>,
     p_ |-> <<"<", "/", "p", ">">>,
     li |-> <<"<", "l", "i", ">">>,
     li_ |-> <<"<", "/", "l", "i", ">">>,
     h2_nl |-> <<"<", "/", "h", "2", ">", "\n", " ", " ", " ", " ", " ", " ", " ", " ",
           " ", " ", " ", " ">>,
     nl12 |-> <<"\n", " ", " ", " ", " ", " ", " ", " ", " ", " ", " ", " ", " ">>,
     nl16 |-> <<"\n", " ", " ", " ", " ", " ", " ", " ", " ", " ", " ", " ", " ", " ", " ",
           " ", " ">>,
     nl20 |-> <<"\n", " ", " ", " ", " ", " ", " ", " ", " ", " ", " ", " ", " ", " ", " ",
           " ", " ", " ", " ", " ", " ">>,
     close_slide |-> <<"\n", " ", " ", " ", " ", " ", " ", " ", " ", "<", "/", "d", "i",
           "v", ">", "\n", " ", " ", " ", " ", " ", " ", " ", " ">>,
     two_left |-> <<"\n", " ", " ", " ", " ", " ", " ", " ", " ", " ", " ", " ", " ", "<",
           "d", "i", "v", " ", "c", "l", "a", "s", "s", "=", "\"", "t", "w", "o", "-", "c",
           "o", "l", "u", "m", "n", "\"", ">", "\n", " ", " ", " ", " ", " ", " ", " ",
           " ", " ", " ", " ", " ", " ", " ", " ", " ", "<", "d", "i", "v", " ", "c", "l",
           "a", "s", "s", "=", "\"", "c", "o", "l", "u", "m", "n", "-", "l", "e", "f", "t",
           "\"", ">", "\n", " ", " ", " ", " ", " ", " ", " ", " ", " ", " ", " ", " ",
           " ", " ", " ", " ", " ", " ", " ", " ">>,
     two_right |-> <<"\n", " ", " ", " ", " ", " ", " ", " ", " ", " ", " ", " ", " ", " ",
           " ", " ", " ", "<", "/", "d", "i", "v", ">", "\n", " ", " ", " ", " ", " ", " ",
           " ", " ", " ", " ", " ", " ", " ", " ", " ", " ", "<", "d", "i", "v", " ", "c",
           "l", "a", "s", "s", "=", "\"", "c", "o", "l", "u", "m", "n", "-", "r", "i", "g",
           "h", "t", "\"", ">", "\n", " ", " ", " ", " ", " ", " ", " ", " ", " ", " ",
           " ", " ", " ", " ", " ", " ", " ", " ", " ", " ">>,
     two_close |-> <<"\n", " ", " ", " ", " ", " ", " ", " ", " ", " ", " ", " ", " ", " ",
           " ", " ", " ", "<", "/", "d", "i", "v", ">", "\n", " ", " ", " ", " ", " ", " ",
           " ", " ", " ", " ", " ", " ", "<", "/", "d", "i", "v", ">", "\n", " ", " ", " ",
           " ", " ", " ", " ", " ", "<", "/", "d", "i", "v", ">", "\n", " ", " ", " ", " ",
           " ", " ", " ", " ">>,
     img_open |-> <<"\n", " ", " ", " ", " ", " ", " ", " ", " ", " ", " ", " ", " ", "<",
           "d", "i", "v", " ", "c", "l", "a", "s", "s", "=", "\"", "i", "m", "a", "g", "e",
           "-", "t", "e", "x", "t", "-", "c", "o", "n", "t", "a", "i", "n", "e", "r", "\"",
           ">", "\n", " ", " ", " ", " ", " ", " ", " ", " ", " ", " ", " ", " ", " ", " ",
           " ", " ", "<", "d", "i", "v", " ", "c", "l", "a", "s", "s", "=", "\"", "i", "m",
           "a", "g", "e", "-", "s", "i", "d", "e", "\"", ">", "\n", " ", " ", " ", " ",
           " ", " ", " ", " ", " ", " ", " ", " ", " ", " ", " ", " ", " ", " ", " ", " ">>,
     img_src |-> <<"<", "i", "m", "g", " ", "s", "r", "c", "=", "\"">>,
     img_alt |-> <<"\"", " ", "a", "l", "t", "=", "\"">>,
     img_end |-> <<"\"", ">">>,
     caption |-> <<"<", "p", " ", "c", "l", "a", "s", "s", "=", "\"", "i", "m", "a", "g",
           "e", "-", "c", "a", "p", "t", "i", "o", "n", "\"", ">">>,
     img_text |-> <<"\n", " ", " ", " ", " ", " ", " ", " ", " ", " ", " ", " ", " ", " ",
           " ", " ", " ", "<", "/", "d", "i", "v", ">", "\n", " ", " ", " ", " ", " ", " ",
           " ", " ", " ", " ", " ", " ", " ", " ", " ", " ", "<", "d", "i", "v", " ", "c",
           "l", "a", "s", "s", "=", "\"", "t", "e", "x", "t", "-", "s", "i", "d", "e",
           "\"", ">", "\n", " ", " ", " ", " ", " ", " ", " ", " ", " ", " ", " ", " ",
           " ", " ", " ", " ", " ", " ", " ", " ">>,
     bullets_open |-> <<"\n", " ", " ", " ", " ", " ", " ", " ", " ", " ", " ", " ", " ",
           "<", "u", "l", " ", "c", "l", "a", "s", "s", "=", "\"", "b", "u", "l", "l", "e",
           "t", "-", "l", "i", "s", "t", "\"", ">", "\n", " ", " ", " ", " ", " ", " ",
           " ", " ", " ", " ", " ", " ", " ", " ", " ", " ">>,
     bullets_close |-> <<"\n", " ", " ", " ", " ", " ", " ", " ", " ", " ", " ", " ", " ",
           "<", "/", "u", "l", ">", "\n", " ", " ", " ", " ", " ", " ", " ", " ", "<", "/",
           "d", "i", "v", ">", "\n", " ", " ", " ", " ", " ", " ", " ", " ">>,
     quote_open |-> <<"<", "/", "s", "p", "a", "n", ">", "\n", " ", " ", " ", " ", " ",
           " ", " ", " ", " ", " ", " ", " ", "<", "d", "i", "v", " ", "c", "l", "a", "s",
           "s", "=", "\"", "q", "u", "o", "t", "e", "-", "c", "o", "n", "t", "a", "i", "n",
           "e", "r", "\"", ">", "\n", " ", " ", " ", " ", " ", " ", " ", " ", " ", " ",
           " ", " ", " ", " ", " ", " ", "<", "b", "l", "o", "c", "k", "q", "u", "o", "t",
           "e", " ", "c", "l", "a", "s", "s", "=", "\"", "q", "u", "o", "t", "e", "\"",
           ">", "\n", " ", " ", " ", " ", " ", " ", " ", " ", " ", " ", " ", " ", " ", " ",
           " ", " ", " ", " ", " ", " ">>,
     quote_mid |-> <<"\n", " ", " ", " ", " ", " ", " ", " ", " ", " ", " ", " ", " ", " ",
           " ", " ", " ", "<", "/", "b", "l", "o", "c", "k", "q", "u", "o", "t", "e", ">",
           "\n", " ", " ", " ", " ", " ", " ", " ", " ", " ", " ", " ", " ", " ", " ", " ",
           " ">>,
     quote_author |-> <<"<", "p", " ", "c", "l", "a", "s", "s", "=", "\"", "q", "u", "o",
           "t", "e", "-", "a", "u", "t", "h", "o", "r", "\"", ">", "--", " ">>,
     quote_close |-> <<"\n", " ", " ", " ", " ", " ", " ", " ", " ", " ", " ", " ", " ",
           "<", "/", "d", "i", "v", ">", "\n", " ", " ", " ", " ", " ", " ", " ", " ", "<",
           "/", "d", "i", "v", ">", "\n", " ", " ", " ", " ", " ", " ", " ", " ">>,
     full_open |-> <<"\n", " ", " ", " ", " ", " ", " ", " ", " ", " ", " ", " ", " ", "<",
           "d", "i", "v", " ", "c", "l", "a", "s", "s", "=", "\"", "f", "u", "l", "l", "-",
           "i", "m", "a", "g", "e", "-", "c", "o", "n", "t", "a", "i", "n", "e", "r", "\"",
           ">", "\n", " ", " ", " ", " ", " ", " ", " ", " ", " ", " ", " ", " ", " ", " ",
           " ", " ">>,
     doc_head |-> <<"<", "!", "D", "O", "C", "T", "Y", "P", "E", " ", "h", "t", "m", "l",
           ">", "\n", "<", "h", "t", "m", "l", " ", "l", "a", "n", "g", "=", "\"", "e",
           "n", "\"", ">", "\n", "<", "h", "e", "a", "d", ">", "\n", " ", " ", " ", " ",
           "<", "m", "e", "t", "a", " ", "c", "h", "a", "r", "s", "e", "t", "=", "\"", "U",
           "T", "F", "-", "8", "\"", ">", "\n", " ", " ", " ", " ", "<", "m", "e", "t",
           "a", " ", "n", "a", "m", "e", "=", "\"", "v", "i", "e", "w", "p", "o", "r", "t",
           "\"", " ", "c", "o", "n", "t", "e", "n", "t", "=", "\"", "w", "i", "d", "t",
           "h", "=", "d", "e", "v", "i", "c", "e", "-", "w", "i", "d", "t", "h", ",", " ",
           "i", "n", "i", "t", "i", "a", "l", "-", "s", "c", "a", "l", "e", "=", "1", ".",
           "0", "\"", ">", "\n", " ", " ", " ", " ", "<", "t", "i", "t", "l", "e", ">">>,
     doc_style |-> <<"<", "/", "t", "i", "t", "l", "e", ">", "\n", " ", " ", " ", " ", "<",
           "s", "t", "y", "l", "e", ">", "\n", " ", " ", " ", " ", " ", " ", " ", " ">>,
     nl8 |-> <<"\n", " ", " ", " ", " ", " ", " ", " ", " ">>,
     doc_body |-> <<"\n", " ", " ", " ", " ", "<", "/", "s", "t", "y", "l", "e", ">", "\n",
           "<", "/", "h", "e", "a", "d", ">", "\n", "<", "b", "o", "d", "y", ">", "\n",
           " ", " ", " ", " ", "<", "d", "i", "v", " ", "c", "l", "a", "s", "s", "=", "\"",
           "p", "r", "e", "s", "e", "n", "t", "a", "t", "i", "o", "n", "-", "c", "o", "n",
           "t", "a", "i", "n", "e", "r", "\"", ">", "\n", " ", " ", " ", " ", " ", " ",
           " ", " ", "<", "h", "e", "a", "d", "e", "r", " ", "c", "l", "a", "s", "s", "=",
           "\"", "p", "r", "e", "s", "e", "n", "t", "a", "t", "i", "o", "n", "-", "h", "e",
           "a", "d", "e", "r", "\"", ">", "\n", " ", " ", " ", " ", " ", " ", " ", " ",
           " ", " ", " ", " ", "<", "h", "1", ">">>,
     doc_h1 |-> <<"<", "/", "h", "1", ">", "\n", " ", " ", " ", " ", " ", " ", " ", " ",
           " ", " ", " ", " ">>,
     doc_author |-> <<"<", "p", " ", "c", "l", "a", "s", "s", "=", "\"", "a", "u", "t",
           "h", "o", "r", "\"", ">", "b", "y", " ">>,
     doc_main |-> <<"\n", " ", " ", " ", " ", " ", " ", " ", " ", "<", "/", "h", "e", "a",
           "d", "e", "r", ">", "\n", " ", " ", " ", " ", " ", " ", " ", " ", "<", "m", "a",
           "i", "n", " ", "c", "l", "a", "s", "s", "=", "\"", "s", "l", "i", "d", "e", "s",
           "-", "c", "o", "n", "t", "a", "i", "n", "e", "r", "\"", ">", "\n", " ", " ",
           " ", " ", " ", " ", " ", " ", " ", " ", " ", " ">>,
     doc_foot |-> <<"\n", " ", " ", " ", " ", " ", " ", " ", " ", "<", "/", "m", "a", "i",
           "n", ">", "\n", " ", " ", " ", " ", " ", " ", " ", " ", "<", "f", "o", "o", "t",
           "e", "r", " ", "c", "l", "a", "s", "s", "=", "\"", "p", "r", "e", "s", "e", "n",
           "t", "a", "t", "i", "o", "n", "-", "f", "o", "o", "t", "e", "r", "\"", ">",
           "\n", " ", " ", " ", " ", " ", " ", " ", " ", " ", " ", " ", " ", "<", "p", ">",
           "G", "e", "n", "e", "r", "a", "t", "e", "d", " ", "w", "i", "t", "h", " ", "H",
           "T", "M", "L", " ", "R", "e", "n", "d", "e", "r", "e", "r", "<", "/", "p", ">",
           "\n", " ", " ", " ", " ", " ", " ", " ", " ", "<", "/", "f", "o", "o", "t", "e",
           "r", ">", "\n", " ", " ", " ", " ", "<", "/", "d", "i", "v", ">", "\n", "<",
           "/", "b", "o", "d", "y", ">", "\n", "<", "/", "h", "t", "m", "l", ">">>]

\* bool(x)
truthy(x) ==
    CASE x.t = "none" -> FALSE
      [] x.t = "int"  -> x.v # 0
      [] x.t = "dict" -> DOMAIN x.v # {}
      [] OTHER        -> x.v # <<>>

\* x or default
or_else(x, default) == IF truthy(x) THEN x ELSE default

\* type(x).__name__
type_name(x) ==
    CASE x.t = "none" -> html_text.NoneType
      [] x.t = "int"  -> html_text.int
      [] x.t = "str"  -> html_text.str
      [] x.t = "list" -> html_text.list
      [] x.t = "dict" -> html_text.dict

\* the text of x in an f-string (of a list or dict: of the empty one)
format(x) ==
    CASE x.t = "none" -> html_text.None_
      [] x.t = "int"  -> str_int(x.v)
      [] x.t = "str"  -> x.v
      [] x.t = "list" -> html_text.brackets
      [] x.t = "dict" -> html_text.braces

\* the outcome of a call: it returned val (ok), or raised an exception whose
\* message is val
Outcome(ok, val) == [ok |-> ok, val |-> val]

\* str(e) of the AttributeError of x.attr
AttributeError(x, attr) ==
    html_text.obj_open \o type_name(x) \o html_text.no_attribute \o attr
        \o html_text.obj_close

\* str(e) of the TypeError of iterating x
TypeError(x) == html_text.obj_open \o type_name(x) \o html_text.not_iterable

\* d.get(key, default) of a dict d
get(d, key, default) == IF key \in DOMAIN d.v THEN d.v[key] ELSE default

\* the elements a for loop over x visits (of a dict: of the empty one)
elements(x) ==
    CASE x.t = "list" -> x.v
      [] x.t = "str"  -> [k \in 1..Len(x.v) |-> Py("str", <<x.v[k]>>)]
      [] x.t = "dict" -> <<>>

\* sep.join(parts)
RECURSIVE join(_, _)
join(parts, sep) ==
    IF parts = <<>> THEN <<>>
    ELSE IF Len(parts) = 1 THEN parts[1]
    ELSE parts[1] \o sep \o join(Tail(parts), sep)

\* the loop of _render_content over lines
RECURSIVE html_lines_of(_)
html_lines_of(lines) ==
    IF lines = <<>> THEN <<>>
    ELSE LET line == strip(Head(lines))
             rest == html_lines_of(Tail(lines))
         IN  IF line = <<>> THEN rest
             ELSE IF startswith(line, html_text.hash_sp)
                  THEN <<html_text.h3 \o SliceFrom(line, 2) \o html_text.h3_>> \o rest
             ELSE IF startswith(line, html_text.hash2_sp)
                  THEN <<html_text.h4 \o SliceFrom(line, 3) \o html_text.h4_>> \o rest
             ELSE IF startswith(line, html_text.dash_sp)
                  THEN <<html_text.li \o SliceFrom(line, 2) \o html_text.li_>> \o rest
             ELSE <<html_text.p \o line \o html_text.p_>> \o rest

\* _render_content(content)
_render_content(content) ==
    IF content.t # "str" THEN Outcome(FALSE, AttributeError(content, html_text.split))
    ELSE Outcome(TRUE, join(html_lines_of(split_lines(content.v)), <<"\n">>))

\* _render_error(error_message)
_render_error(error_message) ==
    html_text.open_error \o error_message \o html_text.close_error

\* _parse_slide_content(content) of a dict content
_parse_slide_content(content) ==
    [title         |-> get(content, "title", Py("none", <<>>)),
     subtitle      |-> get(content, "subtitle", Py("none", <<>>)),
     content       |-> get(content, "content", Py("none", <<>>)),
     left_content  |-> get(content, "left_content", Py("none", <<>>)),
     right_content |-> get(content, "right_content", Py("none", <<>>)),
     image_url     |-> get(content, "image_url", Py("none", <<>>)),
     image_caption |-> get(content, "image_caption", Py("none", <<>>)),
     bullets       |-> get(content, "bullets", Py("list", <<>>)),
     quote         |-> get(content, "quote", Py("none", <<>>)),
     author        |-> get(content, "author", Py("none", <<>>))]

\* f'<h2>{content.title}</h2>' if content.title else ''
optional_h2(content) ==
    IF truthy(content.title)
    THEN html_text.h2 \o format(content.title) \o html_text.h2_
    ELSE <<>>

\* the img element, or the note that no image was provided
image_or_note(content, alt) ==
    IF truthy(content.image_url)
    THEN html_text.img_src \o format(content.image_url) \o html_text.img_alt
             \o format(or_else(content.title, Py("str", alt))) \o html_text.img_end
    ELSE html_text.NoImage

\* f'<p class="image-caption">{content.image_caption}</p>' if content.image_caption else ''
optional_caption(content) ==
    IF truthy(content.image_caption)
    THEN html_text.caption \o format(content.image_caption) \o html_text.p_
    ELSE <<>>

_render_title_slide(content, slide_number) ==
    Outcome(TRUE, html_text.open_title \o str_int(slide_number) \o html_text.span_h2
        \o format(or_else(content.title, Py("str", html_text.UntitledSlide)))
        \o html_text.h2_nl
        \o (IF truthy(content.subtitle)
            THEN html_text.h3 \o format(content.subtitle) \o html_text.h3_ ELSE <<>>)
        \o html_text.nl12
        \o (IF truthy(content.content)
            THEN html_text.p \o format(content.content) \o html_text.p_ ELSE <<>>)
        \o html_text.close_slide)

_render_two_column_slide(content, slide_number) ==
    LET left  == _render_content(or_else(content.left_content, Py("str", <<>>)))
        right == _render_content(or_else(content.right_content, Py("str", <<>>)))
    IN  IF ~left.ok THEN left
        ELSE IF ~right.ok THEN right
        ELSE Outcome(TRUE, html_text.open_slide \o str_int(slide_number) \o html_text.span
                \o optional_h2(content) \o html_text.two_left \o left.val
                \o html_text.two_right \o right.val \o html_text.two_close)

_render_image_text_slide(content, slide_number) ==
    LET body == _render_content(or_else(content.content, Py("str", <<>>)))
    IN  IF ~body.ok THEN body
        ELSE Outcome(TRUE, html_text.open_slide \o str_int(slide_number) \o html_text.span
                \o optional_h2(content) \o html_text.img_open
                \o image_or_note(content, html_text.SlideImage) \o html_text.nl20
                \o optional_caption(content) \o html_text.img_text \o body.val
                \o html_text.two_close)

_render_bullet_points_slide(content, slide_number) ==
    LET bullets == or_else(content.bullets, Py("list", <<>>))
        items   == elements(bullets)
        bullets_html ==
            join([k \in 1..Len(items) |->
                      html_text.li \o format(items[k]) \o html_text.li_], <<"\n">>)
    IN  IF bullets.t \in {"int", "none"} THEN Outcome(FALSE, TypeError(bullets))
        ELSE Outcome(TRUE, html_text.open_slide \o str_int(slide_number) \o html_text.span
                \o optional_h2(content) \o html_text.nl12
                \o (IF truthy(content.content)
                    THEN html_text.p \o format(content.content) \o html_text.p_
                    ELSE <<>>)
                \o html_text.bullets_open \o bullets_html \o html_text.bullets_close)

_render_quote_slide(content, slide_number) ==
    Outcome(TRUE, html_text.open_slide \o str_int(slide_number) \o html_text.quote_open
        \o format(or_else(content.quote, Py("str", html_text.NoQuote)))
        \o html_text.quote_mid
        \o (IF truthy(content.author)
            THEN html_text.quote_author \o format(content.author) \o html_text.p_
            ELSE <<>>)
        \o html_text.quote_close)

_render_full_image_slide(content, slide_number) ==
    Outcome(TRUE, html_text.open_slide \o str_int(slide_number) \o html_text.span
        \o optional_h2(content) \o html_text.full_open
        \o image_or_note(content, html_text.FullImage) \o html_text.nl16
        \o optional_caption(content) \o html_text.quote_close)

\* the values of the enum LayoutType
LayoutType ==
    {html_text.title, html_text.two_column, html_text.image_text,
     html_text.bullet_points, html_text.quote, html_text.full_image}

\* mutant of layout_of: a value that is no LayoutType gives the bullet points layout
layout_or_bullets(layout_type) ==
    IF layout_type.t = "str" /\ layout_type.v \in LayoutType
    THEN layout_type.v ELSE html_text.bullet_points

\* LayoutType(layout_type), and LayoutType.TITLE when that raises ValueError
layout_of(layout_type) ==
    IF layout_type.t = "str" /\ layout_type.v \in LayoutType
    THEN layout_type.v ELSE html_text.title

\* the try block of render_slide: the html, or the exception raised in it
render_slide_try(slide_data, slide_number) ==
    IF slide_data.t # "dict" THEN Outcome(FALSE, AttributeError(slide_data, html_text.get))
    ELSE LET layout_type == get(slide_data, "layout", Py("str", html_text.title))
             content     == get(slide_data, "content", Py("dict", <<>>))
             layout      == layout_of(layout_type)
             slide_content == _parse_slide_content(content)
         IN  IF content.t # "dict" THEN Outcome(FALSE, AttributeError(content, html_text.get))
             ELSE CASE layout = html_text.title ->
                          _render_title_slide(slide_content, slide_number)
                    [] layout = html_text.two_column ->
                          _render_two_column_slide(slide_content, slide_number)
                    [] layout = html_text.image_text ->
                          _render_image_text_slide(slide_content, slide_number)
                    [] layout = html_text.bullet_points ->
                          _render_bullet_points_slide(slide_content, slide_number)
                    [] layout = html_text.quote ->
                          _render_quote_slide(slide_content, slide_number)
                    [] layout = html_text.full_image ->
                          _render_full_image_slide(slide_content, slide_number)

\* render_slide(slide_data, slide_number)
render_slide(slide_data, slide_number) ==
    LET tried == render_slide_try(slide_data, slide_number)
    IN  IF tried.ok THEN tried.val
        ELSE _render_error(html_text.ErrorSlide \o str_int(slide_number)
                               \o html_text.colon \o tried.val)

\* _build_html_document(title, author, slides), slide_list being slides: the
\* html, or the exception of the loop over slides
_build_html_document(title, author, slide_list) ==
    LET items == elements(slide_list)
        slides_html == [k \in 1..Len(items) |-> render_slide(items[k], k)]
    IN  IF slide_list.t \in {"int", "none"} THEN Outcome(FALSE, TypeError(slide_list))
        ELSE Outcome(TRUE, html_text.doc_head \o format(title) \o html_text.doc_style
                \o html_text.base_styles \o html_text.nl8 \o html_text.theme_styles
                \o html_text.doc_body \o format(title) \o html_text.doc_h1
                \o (IF truthy(author)
                    THEN html_text.doc_author \o format(author) \o html_text.p_
                    ELSE <<>>)
                \o html_text.doc_main \o join(slides_html, <<>>) \o html_text.doc_foot)

\* render_deck(deck_data)
render_deck(deck_data) ==
    LET tried ==
            IF deck_data.t # "dict"
            THEN Outcome(FALSE, AttributeError(deck_data, html_text.get))
            ELSE _build_html_document(
                     get(deck_data, "title", Py("str", html_text.UntitledPresentation)),
                     get(deck_data, "author", Py("str", <<>>)),
                     get(deck_data, "slides", Py("list", <<>>)))
    IN  IF tried.ok THEN tried.val
        ELSE _render_error(html_text.ErrorDeck \o tried.val)

\* ---- the values the renderer is called with ----

\* dict(pairs) for a set of (key, value) pairs with distinct keys
DictOf(pairs) ==
    Py("dict", [key \in {pr[1] : pr \in pairs} |-> (CHOOSE pr \in pairs : pr[1] = key)[2]])

\* values that are no dict
NonDicts == {Py("none", <<>>), Py("str", <<"n", "o">>), Py("int", 3), Py("list", <<>>)}

\* the dicts handed to render_slide (slides) and to render_deck (decks)
RenderInputs ==
    LET content_Title == DictOf({<<"title", Py("str", <<"T", "e", "s", "t">>)>>})
        content_Full ==
            DictOf({<<"title", Py("str", <<"T">>)>>,
                    <<"subtitle", Py("str", <<"S">>)>>,
                    <<"content", Py("str", <<"#", " ", "H", "\n", "\n", " ", "-", " ", "i",
                                            "\n", "#", "#", " ", "h", "\n", "t">>)>>,
                    <<"left_content", Py("str", <<"-", " ", "l">>)>>,
                    <<"right_content", Py("str", <<"r">>)>>,
                    <<"image_url", Py("str", <<"u">>)>>,
                    <<"image_caption", Py("str", <<"c">>)>>,
                    <<"bullets", Py("list", <<Py("str", <<"b", "1">>),
                                              Py("str", <<"b", "2">>)>>)>>,
                    <<"quote", Py("str", <<"q">>)>>,
                    <<"author", Py("str", <<"a">>)>>})
        \* entries of the wrong type: numbers where texts and a list are expected
        content_Numbers ==
            DictOf({<<"title", Py("int", 7)>>,
                    <<"content", Py("int", 2)>>,
                    <<"left_content", Py("int", 1)>>,
                    <<"image_url", Py("str", <<"u">>)>>,
                    <<"bullets", Py("int", 3)>>})
        \* the "layout" entry of a slide: none, each LayoutType, values that are none
        LayoutEntries ==
            {{}} \cup {{<<"layout", Py("str", l)>>} :
                          l \in LayoutType \cup {html_text.invalid_layout, <<>>}}
                 \cup {{<<"layout", x>>} :
                          x \in {Py("int", 5), Py("none", <<>>), Py("list", <<>>)}}
        \* the "content" entry of a slide: none, dicts, values that are no dict
        ContentEntries ==
            {{}} \cup {{<<"content", c>>} :
                          c \in {Py("dict", <<>>), content_Title, content_Full,
                                 content_Numbers, Py("str", <<"x">>), Py("none", <<>>)}}
        slides_Good ==
            Py("list", <<DictOf({<<"layout", Py("str", html_text.quote)>>,
                                 <<"content", content_Full>>}),
                         DictOf({<<"layout", Py("str", html_text.invalid_layout)>>,
                                 <<"content", content_Title>>})>>)
        slides_Mixed ==
            Py("list", <<DictOf({<<"content", content_Title>>}), Py("str", <<"n", "o">>),
                         DictOf({<<"layout", Py("str", html_text.two_column)>>,
                                 <<"content", content_Numbers>>})>>)
    IN  [slides |-> {DictOf(l \cup c) : l \in LayoutEntries, c \in ContentEntries},
         decks  |->
            {DictOf(ti \cup au \cup sl) :
                ti \in {{}, {<<"title", Py("str", <<"D">>)>>}},
                au \in {{}, {<<"author", Py("str", <<"M", "e">>)>>},
                        {<<"author", Py("str", <<>>)>>}},
                sl \in {{}} \cup {{<<"slides", x>>} :
                           x \in {Py("list", <<>>), slides_Good, slides_Mixed,
                                  Py("str", <<"a", "b">>), Py("none", <<>>),
                                  Py("int", 2)}}}]

RenderInit ==
    /\ stage = "call"
    /\ \/ /\ render_call = "render_deck"
          /\ render_arg \in {Some([data |-> d, slide_number |-> 0]) :
                                d \in NonDicts \cup RenderInputs.decks}
       \/ /\ render_call = "render_slide"
          /\ render_arg \in {Some([data |-> d, slide_number |-> n]) :
                                d \in NonDicts \cup RenderInputs.slides, n \in {1, 10}}
    /\ html = None
    /\ OthersIdle
    /\ DeckIdle

CallRenderDeck ==
    /\ stage = "call"
    /\ render_call = "render_deck"
    /\ html' = Some(render_deck((CHOOSE a \in render_arg : TRUE).data))
    /\ stage' = "ret"
    /\ UNCHANGED <<render_call, render_arg, text, result, again_vars, exec_vars, deck_vars,
                   agent_vars>>

CallRenderSlide ==
    /\ stage = "call"
    /\ render_call = "render_slide"
    /\ LET a == CHOOSE x \in render_arg : TRUE
       IN  html' = Some(render_slide(a.data, a.slide_number))
    /\ stage' = "ret"
    /\ UNCHANGED <<render_call, render_arg, text, result, again_vars, exec_vars, deck_vars,
                   agent_vars>>

RenderNext == CallRenderDeck \/ CallRenderSlide

RenderSpec == RenderInit /\ [][RenderNext]_vars

-----------------------------------------------------------------------------
(* The renderer on malformed input                                         *)

\* sub occurs in s
Occurs(sub, s) ==
    \E off \in 0..(Len(s) - Len(sub)) : \A k \in 1..Len(sub) : s[off + k] = sub[k]

Rendered == CHOOSE h \in html : TRUE

RenderedData == (CHOOSE a \in render_arg : TRUE).data

RenderedNumber == (CHOOSE a \in render_arg : TRUE).slide_number

\* the slide is a dict whose layout entry names no layout
HasUnknownLayout(d) ==
    /\ d.t = "dict"
    /\ "layout" \in DOMAIN d.v
    /\ ~(d.v["layout"].t = "str" /\ d.v["layout"].v \in LayoutType)

\* the slide d with the layout entry "title"
WithTitleLayout(d) == Py("dict", [d.v EXCEPT !["layout"] = Py("str", <<"t", "i", "t", "l", "e">>)])

\* the slide has no content entry, or one that is a dict
HasDictContent(d) == "content" \in DOMAIN d.v => d.v["content"].t = "dict"

\* C16: the renderer returns html for every input: for a deck that is no dict
\* html that holds "Error rendering deck", for a slide that is no dict html
\* that holds "Error rendering slide", and for a slide dict with an unknown
\* layout the html of the same slide under the title layout, a title slide
\* when its content is a dict
C16_RendererNeverRaises ==
    stage = "ret" =>
        /\ html # None
        /\ (render_call = "render_deck" /\ RenderedData.t # "dict")
              => Occurs(<<"E", "r", "r", "o", "r", " ", "r", "e", "n", "d", "e", "r", "i", "n",
                          "g", " ", "d", "e", "c", "k">>, Rendered)
        /\ (render_call = "render_slide" /\ RenderedData.t # "dict")
              => Occurs(<<"E", "r", "r", "o", "r", " ", "r", "e", "n", "d", "e", "r", "i", "n",
                          "g", " ", "s", "l", "i", "d", "e">>, Rendered)
        /\ (render_call = "render_slide" /\ HasUnknownLayout(RenderedData))
              => /\ Rendered = render_slide(WithTitleLayout(RenderedData), RenderedNumber)
                 /\ HasDictContent(RenderedData)
                       => Occurs(<<"t", "i", "t", "l", "e", "-", "s", "l", "i", "d", "e">>,
                                 Rendered)

\* a slide with the layout "invalid_layout" and a title, rendered as a title slide
C16_Witness ==
    /\ stage = "ret"
    /\ render_call = "render_slide"
    /\ HasUnknownLayout(RenderedData)
    /\ RenderedData.v["layout"].t = "str"
    /\ RenderedData.v["layout"].v # <<>>
    /\ Occurs(<<"t", "i", "t", "l", "e", "-", "s", "l", "i", "d", "e">>, Rendered)
    /\ Occurs(<<"<", "h", "2", ">", "T", "e", "s", "t", "<", "/", "h", "2", ">">>, Rendered)

-----------------------------------------------------------------------------
(* The forced prefix of the thought step                                   *)

\* a step in which a GENERATE_THOUGHT reply is received and handled
ThoughtStep == pc = "think" /\ pc' \notin {"think", "raised"}

\* the text an Answer reply carries behind its prefix
AnswerTextOf(t) ==
    IF HasPrefix(Trim(t), s_FinalAnswer)
    THEN Trim(AfterPrefix(Trim(t), s_FinalAnswer))
    ELSE Trim(AfterPrefix(Trim(t), s_Answer))

\* C17: whatever a GENERATE_THOUGHT reply holds, the one event logged for it is
\* a Thought with the trimmed reply as text: no action is executed and no
\* Observation logged for it, the subtask goes on to its continuation call,
\* and the final answer of a returned run is the text of a continuation reply
C17_ForcedThought ==
    /\ [][ThoughtStep =>
              /\ log' = Append(log, [type |-> "Thought", content |-> Trim(response_text'),
                                     metadata |-> None])
              /\ executed' = executed
              /\ pc' = "cont"
              /\ i' = i
              /\ final_answer' = final_answer]_vars
    /\ []((pc = "returned" /\ final_answer # None) =>
              /\ IsAnswerText(continue_text)
              /\ final_answer = Some(AnswerTextOf(continue_text)))

\* a returned run with a thought reply "Action: f(x)" and a thought reply
\* "Answer: 7", both logged as Thought, and no action executed
C17_Witness ==
    /\ pc = "returned"
    /\ final_answer # None
    /\ executed = <<>>
    /\ \E n \in PositionsOf(log, "Thought") : log[n].content = thought_Action
    /\ \E n \in PositionsOf(log, "Thought") :
           log[n].content = thought_Answer /\ final_answer # Some(AnswerTextOf(thought_Answer))

-----------------------------------------------------------------------------
(* Actions and their observations                                          *)

\* C18: in every log each Action event is followed at once by an Observation
\* event, and the text of that Observation is what the action executor
\* returned when it was called with that Action event: the k-th Action event
\* of the log belongs to the k-th call; so it is for an Action without metadata
C18_ActionThenObservation ==
    \A n \in PositionsOf(log, "Action") :
        LET k == Cardinality({m \in PositionsOf(log, "Action") : m <= n})
        IN  /\ n < Len(log)
            /\ log[n + 1].type = "Observation"
            /\ k <= Len(executed)
            /\ executed[k].action = log[n]
            /\ log[n + 1].content = executed[k].observation

\* an Action without metadata, followed by the observation of the stub executor
C18_Witness ==
    \E n \in PositionsOf(log, "Action") :
        /\ log[n].metadata = None
        /\ n < Len(log)
        /\ log[n + 1].type = "Observation"
        /\ log[n + 1].content = s_ActionExecuted
        /\ pc = "returned"

\* a reply that is classified Action: trimmed, it begins with "Action:"
IsActionText(t) == HasPrefix(Trim(t), s_Action)

\* C19: the action executor is called exactly once in the step that handles a
\* continuation reply classified Action, with the event of that reply and
\* before any further model call, and in no other step
C19_ExecutorOncePerAction ==
    /\ [][(ContinuationStep /\ IsActionText(continue_text')) =>
              /\ Len(executed') = Len(executed) + 1
              /\ SubSeq(executed', 1, Len(executed)) = executed
              /\ executed'[Len(executed')].action.type = "Action"
              /\ executed'[Len(executed')].action.content =
                     Trim(AfterPrefix(Trim(continue_text'), s_Action))
              /\ model_calls' = model_calls + 1]_vars
    /\ [][~(ContinuationStep /\ IsActionText(continue_text')) =>
              executed' = executed]_vars

\* the executor has been called once, after the plan call, a thought call and
\* a continuation call; a later continuation reply of another kind called nothing
C19_Witness ==
    /\ Len(executed) = 1
    /\ model_calls = 5
    /\ pc = "think"
    /\ ~IsActionText(continue_text)

\* C20: when a continuation reply is classified Answer, the Answer event is
\* appended and the subtask is over: the transcript is left as it was, no model
\* call follows for that plan item, and the next event appended to the log is
\* the PlanItem event of the next plan item
C20_AnswerEndsSubtask ==
    /\ [][(ContinuationStep /\ IsAnswerText(continue_text')) =>
              /\ log' = Append(log, [type |-> "Answer",
                                     content |-> AnswerTextOf(continue_text'),
                                     metadata |-> None])
              /\ messages' = messages
              /\ model_calls' = model_calls + 1
              /\ i' = i
              /\ pc' = "for"]_vars
    /\ [][pc = "for" =>
              /\ model_calls' = model_calls
              /\ \/ log' = log /\ i' = i
                 \/ /\ i < Len(plan_items)
                    /\ i' = i + 1
                    /\ log' = Append(log, [type |-> "PlanItem",
                                           content |-> plan_items[i + 1],
                                           metadata |-> None])]_vars

\* the first subtask ended with an Answer and the second plan item has begun
C20_Witness ==
    /\ pc = "think"
    /\ i = 2
    /\ Len(log) >= 4
    /\ log[Len(log)].type = "PlanItem"
    /\ log[Len(log)].content = plan_items[2]
    /\ log[Len(log) - 1].type = "Answer"
    /\ Len(messages) = 2

-----------------------------------------------------------------------------
(* Continuation replies that are neither Action nor Answer                 *)

\* the kind a text is classified as: that of the prefix it carries, Thought
\* when it carries none
KindOfText(t) ==
    IF CarriedPrefix(t) = <<>> THEN "Thought" ELSE KindOfPrefix(CarriedPrefix(t))

\* the text of the event: what follows the carried prefix, trimmed
TextBehindPrefix(t) == Trim(AfterPrefix(Trim(t), CarriedPrefix(t)))

\* C21: when a continuation reply is classified neither Action nor Answer, that
\* one event is appended to the log, the transcript gets one assistant turn
\* with the raw reply and no user turn, the action executor is not called,
\* and the subtask goes back to its thought call
C21_OtherReplyLoggedAndLooped ==
    [][(ContinuationStep /\ ~IsActionText(continue_text') /\ ~IsAnswerText(continue_text')) =>
          /\ log' = Append(log, [type |-> KindOfText(continue_text'),
                                 content |-> TextBehindPrefix(continue_text'),
                                 metadata |-> None])
          /\ messages' = Append(messages, [role |-> "assistant", content |-> continue_text'])
          /\ executed' = executed
          /\ model_calls' = model_calls + 1
          /\ i' = i
          /\ pc' = "think"]_vars

\* an Observation-kind continuation reply has been logged and its raw text is
\* the last turn of the transcript; the subtask is at its thought call again
C21_Witness ==
    /\ pc = "think"
    /\ continue_text = cont_Observation
    /\ log[Len(log)] = [type |-> "Observation", content |-> <<"o">>, metadata |-> None]
    /\ Len(messages) = 5
    /\ messages[5] = [role |-> "assistant", content |-> cont_Observation]
    /\ executed = <<>>

-----------------------------------------------------------------------------
(* The transcript at the continuation call                                 *)

\* C22: at every continuation call the transcript ends with an assistant turn
\* holding the raw thought reply and, after it, a user turn that reads exactly
\* "Continue:"; and the reply to that call is classified as it stands, under
\* no forced prefix: the event logged for it has the kind of the prefix the
\* reply itself carries
C22_ContinuationTranscript ==
    /\ [](pc = "cont" =>
            /\ Len(messages) >= 4
            /\ messages[Len(messages) - 1] = [role |-> "assistant", content |-> response_text]
            /\ messages[Len(messages)] = [role |-> "user", content |-> s_Continue])
    /\ [][ContinuationStep =>
            /\ Len(log') > Len(log)
            /\ log'[Len(log) + 1].type = KindOfText(continue_text')
            /\ log'[Len(log) + 1].content = TextBehindPrefix(continue_text')]_vars

\* a second continuation call of a subtask, after a thought reply with
\* surrounding whitespace; the first continuation reply was logged as an Action
C22_Witness ==
    /\ pc = "cont"
    /\ Len(messages) = 8
    /\ response_text = thought_Plain
    /\ response_text # Trim(response_text)
    /\ messages[7].content = thought_Plain
    /\ \E n \in PositionsOf(log, "Action") : log[n].content = TextBehindPrefix(continue_text)

-----------------------------------------------------------------------------
(* Subtasks one after another, each from a fresh transcript                *)

\* the transcript a subtask starts from: the system instruction and one user
\* turn "Subtask: <item>\nThought:"
FreshTranscript(item) ==
    <<[role |-> "system", content |-> SystemInstruction],
      [role |-> "user", content |-> s_Subtask \o item \o s_ThoughtCue]>>

\* C23: the plan items are taken one after another in plan order: the item
\* index only ever moves on by one, between subtasks, and the step that moves
\* it appends the item's PlanItem event and replaces the transcript by a fresh
\* one; at the first model call of a subtask the transcript is exactly that
\* fresh transcript; and since the log only grows at its end and the events
\* of the current subtask lie behind start_len, every event of a subtask lies
\* before every event of the next
C23_SequentialFreshSubtasks ==
    /\ [][i' # i =>
            /\ pc = "for"
            /\ i' = i + 1
            /\ i' <= Len(plan_items)
            /\ start_len' = Len(log)
            /\ log' = Append(log, [type |-> "PlanItem", content |-> plan_items[i'],
                                   metadata |-> None])
            /\ messages' = FreshTranscript(plan_items[i'])
            /\ pc' = "think"]_vars
    /\ [][/\ Len(log') >= Len(log)
          /\ SubSeq(log', 1, Len(log)) = log
          /\ (i' = i => start_len' = start_len)]_vars
    /\ []((pc = "think" /\ Len(log) = start_len + 1) =>
            /\ i \in 1..Len(plan_items)
            /\ log[Len(log)].type = "PlanItem"
            /\ messages = FreshTranscript(plan_items[i]))

\* the second subtask is at its first model call, after a first subtask of
\* two rounds: its transcript holds the two fresh turns only
C23_Witness ==
    /\ pc = "think"
    /\ i = 2
    /\ start_len = 5
    /\ Len(log) = 6
    /\ plan_items[1] # plan_items[2]
    /\ messages = FreshTranscript(plan_items[2])
    /\ model_calls = 5

-----------------------------------------------------------------------------
(* The argument of an action call                                          *)

\* s without the quote characters at its ends
RECURSIVE TrimQuotes(_)
TrimQuotes(s) ==
    IF s = <<>> THEN s
    ELSE IF Head(s) \in Quotes THEN TrimQuotes(Tail(s))
    ELSE IF s[Len(s)] \in Quotes THEN TrimQuotes(SubSeq(s, 1, Len(s) - 1))
    ELSE s

\* C24 (as claimed): for an "Action:" text whose remainder is a call, the
\* argument taken from it is everything between the first "(" after the name
\* and the last ")" of the remainder (the metadata holds it with the quotes
\* at its ends stripped), whatever the remainder holds: further parentheses,
\* text after the call, line breaks.
C24_ArgumentUpToLastParen ==
    (stage = "ret" /\ pc = "idle" /\ HasPrefix(Trim(text), s_Action)) =>
        LET rem == Trim(AfterPrefix(Trim(text), s_Action)) IN
        IsCall(rem) =>
            Returned.metadata = Some([name |-> CallName(rem),
                                      params |-> TrimQuotes(CallArgument(rem))])

-----------------------------------------------------------------------------
(* Where Observation events come from                                      *)

\* C25 (as claimed): in every log each Observation event comes right after an
\* Action event.
C25_ObservationFollowsAction ==
    \A n \in PositionsOf(log, "Observation") : n > 1 /\ log[n - 1].type = "Action"

-----------------------------------------------------------------------------
(* The final answer of a returned run                                      *)

\* C26: a run that returns with a non-empty plan has handled its last plan
\* item, the last event of its log is the Answer event that ended that item's
\* subtask, and final_answer is present and is the text of that event; so a
\* returned run has no final_answer exactly when its plan is empty, and the
\* Answer of an earlier subtask is never the final answer
C26_FinalAnswerEndsLastSubtask ==
    pc = "returned" =>
        /\ final_answer = None <=> plan_items = <<>>
        /\ plan_items # <<>> =>
              /\ i = Len(plan_items)
              /\ log[start_len + 1] = [type |-> "PlanItem", content |-> plan_items[i],
                                       metadata |-> None]
              /\ Len(log) > start_len + 1
              /\ log[Len(log)].type = "Answer"
              /\ IsAnswerText(continue_text)
              /\ log[Len(log)].content = AnswerTextOf(continue_text)
              /\ final_answer = Some(log[Len(log)].content)

\* a returned run of two subtasks whose Answer events differ: the final
\* answer is the second one
C26_Witness ==
    /\ pc = "returned"
    /\ Len(plan_items) = 2
    /\ \E n \in 1..start_len :
           /\ log[n].type = "Answer"
           /\ final_answer # Some(log[n].content)
    /\ final_answer = Some(<<"4", "2">>)

-----------------------------------------------------------------------------
(* The turns of the transcript                                             *)

\* C27 (as claimed): at every model call of a subtask, thought call or
\* continuation call, the last turn of the transcript is a user turn, and the
\* transcript never holds two assistant turns in a row.
C27_LastTurnIsUser ==
    /\ pc \in {"think", "cont"} =>
           /\ messages # <<>>
           /\ messages[Len(messages)].role = "user"
    /\ \A n \in 1..(Len(messages) - 1) :
           ~(messages[n].role = "assistant" /\ messages[n + 1].role = "assistant")

-----------------------------------------------------------------------------
(* Empty plan items                                                        *)

\* C28 (as claimed): every item parse_plan returns is a non-empty text with no
\* whitespace at either end, whatever the input, lines made of a number, a dot
\* and whitespace included.
C28_PlanItemsNonEmpty ==
    (stage = "ret" /\ pc = "idle" /\ result # None) =>
        \A k \in 1..Len(Returned) :
            /\ Returned[k] # <<>>
            /\ Returned[k] = Trim(Returned[k])

-----------------------------------------------------------------------------
(* The plan after the plan phase                                           *)

\* C29: once the plan phase is over the sequence of plan items never changes,
\* whatever the model replies and whatever is executed and observed; and the
\* plan items of a returned run are the items of the plan reply: one for each
\* of its numbered lines, in line order, the line's payload trimmed
C29_PlanFixedAfterPlanPhase ==
    /\ [][pc # "plan" => plan_items' = plan_items /\ plan_text' = plan_text]_vars
    /\ [](pc = "returned" =>
            LET numbered == SelectNumbered(LinesOf(plan_text)) IN
            /\ Len(plan_items) = Len(numbered)
            /\ \A k \in 1..Len(numbered) :
                   \A pay \in PayloadsOf(numbered[k]) : plan_items[k] = Trim(pay))

\* a returned run of a two-item plan in which the model sent a reply
\* classified PlanItem and an action was executed
C29_Witness ==
    /\ pc = "returned"
    /\ Len(plan_items) = 2
    /\ \E n \in PositionsOf(log, "PlanItem") : log[n].content \notin Range(plan_items)
    /\ executed # <<>>
    /\ Cardinality(PositionsOf(log, "PlanItem")) = 3

-----------------------------------------------------------------------------
(* Whitespace at the ends of event texts                                   *)

\* C30: the text of every event of the log has no whitespace at either end:
\* PlanItem events, Thought events of the thought step, the events of the
\* continuation replies and the Observation events made from what the stub
\* executor returned, whatever the model replies
C30_EventTextsTrimmed ==
    \A n \in 1..Len(log) : log[n].content = Trim(log[n].content)

\* a returned log with the PlanItem of an indented plan line, the Thought of a
\* reply with whitespace around it, the Action of a reply with whitespace
\* around it and the Observation for its query, which has whitespace at both ends
C30_Witness ==
    /\ pc = "returned"
    /\ plan_text = plan_OneItem
    /\ \E n \in PositionsOf(log, "Thought") : log[n].content = Trim(thought_Plain)
    /\ thought_Plain # Trim(thought_Plain)
    /\ continue_text = cont_FinalAnswer42
    /\ \E n \in PositionsOf(log, "Action") :
           /\ log[n].metadata = Some([name |-> s_Search, params |-> <<" ", "q", " ">>])
           /\ log[n + 1].type = "Observation"
           /\ Occurs(<<"'", " ", "q", " ", "'">>, log[n + 1].content)

=============================================================================
